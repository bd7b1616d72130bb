---------------------- MODULE ContinuousTraining_proofs ----------------------
(***************************************************************************)
(* Theorems about ContinuousTraining for every number of runs and every    *)
(* value of the thresholds, the retries and the bounds.                    *)
(***************************************************************************)
EXTENDS ContinuousTraining, FiniteSetTheorems, TLAPS

USE ParameterAssumption, NoMetricsAssumption

-----------------------------------------------------------------------------
(* The registry only grows by one version at its end, so a version number  *)
(* stays valid and keeps its run.                                          *)
LEMMA AppendVersion ==
    ASSUME NEW r \in Runs, registry \in Seq(Runs \cup {Seed})
    PROVE  /\ Append(registry, r) \in Seq(Runs \cup {Seed})
           /\ Len(registry) \in Nat
           /\ Len(Append(registry, r)) = Len(registry) + 1
           /\ \A v \in 1..Len(registry) : Append(registry, r)[v] = registry[v]
           /\ Append(registry, r)[Len(registry) + 1] = r
  OBVIOUS

(* Initially only the seed is registered, and it is champion.              *)
LEMMA InitType == Init => TypeOK
  BY DEF Init, TypeOK, Locations, Ended, Promoting

(* Moving a run to a location keeps pc a function to locations and leaves  *)
(* the other runs where they are.                                          *)
LEMMA GotoType ==
    ASSUME TypeOK, NEW r \in Runs, NEW l \in Locations, Goto(r, l)
    PROVE  /\ pc' \in [Runs -> Locations]
           /\ pc'[r] = l
           /\ \A q \in Runs : q # r => pc'[q] = pc[q]
  BY DEF TypeOK, Goto

LEMMA FaultType == \A call : TypeOK /\ Fault(call) => faults' \in 0..MaxFaults
  BY DEF TypeOK, Fault

LEMMA RetryType ==
    ASSUME TypeOK, NEW r \in Runs, RetryPromotion(r)
    PROVE  /\ pc' \in [Runs -> Locations]
           /\ pc'[r] # "setChampion"
           /\ \A q \in Runs : q # r => pc'[q] = pc[q]
           /\ attempt' \in [Runs -> 0..PromoteRetries]
  <1>1. {"readChallenger", "failed"} \subseteq Locations
    BY DEF Locations, Promoting, Ended
  <1>2. CASE attempt[r] < PromoteRetries
    <2>1. attempt' = [attempt EXCEPT ![r] = attempt[r] + 1]
      BY <1>2 DEF RetryPromotion
    <2>2. QED
      BY <1>1, <1>2, <2>1, GotoType DEF RetryPromotion, TypeOK
  <1>3. CASE ~(attempt[r] < PromoteRetries)
    BY <1>1, <1>3, GotoType DEF RetryPromotion, TypeOK
  <1>4. QED
    BY <1>2, <1>3

(* A run's step keeps every variable in its type, and every alias and      *)
(* every version number a run remembers names a registered version.        *)
LEMMA RunStepType ==
    ASSUME TypeOK, NEW r \in Runs, Start(r) \/ RunStep(r) \/ Crash(r)
    PROVE  TypeOK'
  <1> USE DEF TypeOK, rollbackVars
  <1>0. /\ Len(registry) \in Nat
        /\ \A l : l \in Locations <=>
               l \in {"idle", "data", "train", "register", "alias", "g2", "g3",
                     "deploy", "readChallenger", "setChampion", "completed",
                     "skipped", "failed"}
    BY DEF Locations, Ended, Promoting
  <1>1. CASE Start(r)
    BY <1>0, <1>1, GotoType DEF Start
  <1>2. CASE PrepareData(r)
    BY <1>0, <1>2, GotoType DEF PrepareData
  <1>3. CASE Train(r)
    <2>1. /\ pc' \in [Runs -> Locations]
          /\ pc'[r] # "setChampion"
          /\ \A q \in Runs : q # r => pc'[q] = pc[q]
      BY <1>0, <1>3, GotoType DEF Train
    <2>2. metrics' \in [Runs \cup {Seed} -> Metrics \cup {NoMetrics}]
      <3>1. CASE \E m \in Metrics : metrics' = [metrics EXCEPT ![r] = m]
        BY <3>1
      <3>2. QED
        BY <1>3, <3>1 DEF Train
    <2>3. QED
      BY <1>3, <2>1, <2>2 DEF Train
  <1>4. CASE RegisterModel(r)
    <2>1. /\ registry' \in Seq(Runs \cup {Seed})
          /\ Len(registry') \in Len(registry)..(Len(registry) + 1)
      <3>1. registry' \in {registry, Append(registry, r)}
        BY <1>4 DEF RegisterModel
      <3>2. CASE registry' = registry
        BY <1>0, <3>2
      <3>3. CASE registry' = Append(registry, r)
        BY <1>0, <3>3, AppendVersion
      <3>4. QED
        BY <3>1, <3>2, <3>3
    <2>2. own' \in [Runs -> 0..Len(registry')]
      <3>1. CASE /\ registry' = Append(registry, r)
                 /\ own' = [own EXCEPT ![r] = Len(registry) + 1]
        BY <1>0, <3>1, AppendVersion
      <3>2. CASE UNCHANGED own
        BY <1>0, <2>1, <3>2
      <3>3. QED
        BY <1>4, <3>1, <3>2 DEF RegisterModel
    <2>3. /\ pc' \in [Runs -> Locations]
          /\ pc'[r] # "setChampion"
          /\ \A q \in Runs : q # r => pc'[q] = pc[q]
          /\ faults' \in 0..MaxFaults
      BY <1>0, <1>4, GotoType, FaultType DEF RegisterModel
    <2>4. UNCHANGED <<metrics, challenger, champion, target, attempt,
                      rollback, rollbacks, overtaken>>
      BY <1>4 DEF RegisterModel, rollbackVars
    <2>5. challenger' \in 0..Len(registry') /\ champion' \in 1..Len(registry')
      BY <1>0, <2>1, <2>4
    <2>6. target' \in [Runs -> 0..Len(registry')]
      BY <1>0, <2>1, <2>4
    <2>7. /\ rollback' \in [Monitors -> 0..Len(registry')]
          /\ \A m \in Monitors : rollback'[m] # 1
      BY <1>0, <2>1, <2>4
    <2>8. QED
      BY <2>1, <2>2, <2>3, <2>4, <2>5, <2>6, <2>7
  <1>5. CASE SetChallenger(r)
    <2>1. /\ pc' \in [Runs -> Locations]
          /\ pc'[r] # "setChampion"
          /\ \A q \in Runs : q # r => pc'[q] = pc[q]
      BY <1>0, <1>5, GotoType DEF SetChallenger
    <2>2. challenger' \in {challenger, own[r]} /\ faults' \in 0..MaxFaults
      BY <1>5, FaultType DEF SetChallenger
    <2>3. QED
      BY <1>5, <2>1, <2>2 DEF SetChallenger
  <1>6. CASE CheckTrainingQuality(r)
    BY <1>0, <1>6, GotoType DEF CheckTrainingQuality
  <1>7. CASE CheckChampionGate(r)
    BY <1>0, <1>7, GotoType, FaultType DEF CheckChampionGate
  <1>8. CASE ReadChallenger(r)
    <2>1. /\ target' \in [Runs -> 0..Len(registry)]
          /\ \A q \in Runs : pc'[q] = "setChampion" => target'[q] # 0
      <3>1. CASE /\ target' = [target EXCEPT ![r] = challenger]
                 /\ challenger # 0
                 /\ Goto(r, "setChampion")
        BY <1>0, <3>1, GotoType
      <3>2. CASE UNCHANGED target /\ RetryPromotion(r)
        BY <3>2, RetryType
      <3>3. QED
        BY <1>8, <3>1, <3>2 DEF ReadChallenger
    <2>2. /\ pc' \in [Runs -> Locations]
          /\ attempt' \in [Runs -> 0..PromoteRetries]
      BY <1>0, <1>8, GotoType, RetryType DEF ReadChallenger
    <2>3. faults' \in 0..MaxFaults
      BY <1>8, FaultType DEF ReadChallenger
    <2>4. QED
      BY <1>8, <2>1, <2>2, <2>3 DEF ReadChallenger
  <1>9. CASE SetChampion(r)
    <2>1. /\ pc' \in [Runs -> Locations]
          /\ pc'[r] # "setChampion"
          /\ \A q \in Runs : q # r => pc'[q] = pc[q]
          /\ attempt' \in [Runs -> 0..PromoteRetries]
          /\ faults' \in 0..MaxFaults
      BY <1>0, <1>9, GotoType, RetryType, FaultType DEF SetChampion
    <2>2. champion' \in {champion, target[r]}
      BY <1>9 DEF SetChampion
    <2>3. target[r] \in 1..Len(registry)
      BY <1>9 DEF SetChampion
    <2>4. QED
      BY <1>9, <2>1, <2>2, <2>3 DEF SetChampion
  <1>10. CASE TriggerDeployment(r)
    BY <1>0, <1>10, GotoType DEF TriggerDeployment
  <1>11. CASE Crash(r)
    BY <1>0, <1>11, GotoType, FaultType DEF Crash
  <1>12. QED
    BY <1>1, <1>2, <1>3, <1>4, <1>5, <1>6, <1>7, <1>8, <1>9, <1>10, <1>11
       DEF RunStep

(* A step of a rollback reads a champion above version 1, or ends it with  *)
(* the champion moved or not, overtaking every other one under way.        *)
LEMMA RollbackMoves ==
    ASSUME NEW m \in Monitors, RollbackRead(m) \/ RollbackSet(m) \/ RollbackFails(m)
    PROVE  /\ UNCHANGED <<registry, metrics, challenger, pc, own, target, attempt>>
           /\ \/ /\ rollback[m] = 0 /\ champion > 1 /\ champion' = champion
                 /\ rollback' = [rollback EXCEPT ![m] = champion]
                 /\ overtaken' = overtaken \ {m}
              \/ /\ rollback[m] # 0
                 /\ champion' \in {champion, RollbackTarget(m)}
                 /\ rollback' = [rollback EXCEPT ![m] = 0]
                 /\ overtaken' = {n \in Monitors \ {m} : rollback[n] # 0}
  BY DEF RollbackRead, RollbackSet, RollbackFails, RollbackEnds, runVars

(* A rollback moves the champion to a registered version, never below 1.   *)
LEMMA RollbackType == TypeOK /\ Rollback => TypeOK'
  <1> SUFFICES ASSUME TypeOK,
                      NEW m \in Monitors,
                      RollbackRead(m) \/ RollbackSet(m) \/ RollbackFails(m)
               PROVE  TypeOK'
    BY DEF Rollback
  <1> USE DEF TypeOK
  <1>1. /\ Len(registry) \in Nat
        /\ rollback \in [Monitors -> 0..Len(registry)]
        /\ rollback[m] \in 0..Len(registry) /\ rollback[m] # 1
        /\ champion \in 1..Len(registry)
    OBVIOUS
  <1>2. champion' \in 1..Len(registry)
    BY <1>1, RollbackMoves DEF RollbackTarget
  <1>3. /\ rollback' \in [Monitors -> 0..Len(registry)]
        /\ \A n \in Monitors : rollback'[n] # 1
    <2>1. CASE champion > 1 /\ rollback' = [rollback EXCEPT ![m] = champion]
      BY <1>1, <2>1
    <2>2. CASE rollback' = [rollback EXCEPT ![m] = 0]
      BY <1>1, <2>2
    <2>3. QED
      BY <2>1, <2>2, RollbackMoves
  <1>4. overtaken' \subseteq Monitors
    BY RollbackMoves
  <1>5. faults' \in 0..MaxFaults /\ rollbacks' \in 0..MaxRollbacks
    <2>1. CASE RollbackRead(m)
      BY <2>1 DEF RollbackRead
    <2>2. CASE RollbackSet(m)
      BY <2>2 DEF RollbackSet, RollbackEnds
    <2>3. CASE RollbackFails(m)
      BY <2>3, FaultType DEF RollbackFails, RollbackEnds
    <2>4. QED
      BY <2>1, <2>2, <2>3
  <1>6. UNCHANGED <<registry, metrics, challenger, pc, own, target, attempt>>
    BY RollbackMoves
  <1>7. QED
    BY <1>2, <1>3, <1>4, <1>5, <1>6

LEMMA NextType == TypeOK /\ [Next]_vars => TypeOK'
  <1> SUFFICES ASSUME TypeOK, [Next]_vars PROVE TypeOK'
    OBVIOUS
  <1>1. CASE Next
    BY <1>1, RunStepType, RollbackType DEF Next
  <1>2. CASE UNCHANGED vars
    BY <1>2 DEF vars, runVars, rollbackVars, TypeOK
  <1>3. QED
    BY <1>1, <1>2

(* Every reachable state is well typed; in particular @champion always     *)
(* names a registered version, whatever fails and however runs overlap.    *)
THEOREM TypeCorrect == Spec => []TypeOK
  BY InitType, NextType, PTL DEF Spec

-----------------------------------------------------------------------------
(* A step of one run touches no other run's variables and no version       *)
(* already registered, and takes no part in a rollback.                    *)
LEMMA StepFrame ==
    ASSUME TypeOK, NEW r \in Runs, Start(r) \/ RunStep(r) \/ Crash(r)
    PROVE  /\ \A q \in Runs \ {r} : /\ pc'[q] = pc[q]
                                   /\ own'[q] = own[q]
                                   /\ target'[q] = target[q]
                                   /\ metrics'[q] = metrics[q]
           /\ Len(registry') \in Len(registry)..(Len(registry) + 1)
           /\ \A v \in 1..Len(registry) : registry'[v] = registry[v]
           /\ Len(registry') # Len(registry) => registry'[Len(registry')] = r
           /\ UNCHANGED <<rollback, rollbacks, overtaken>>
  <1>1. /\ Len(registry) \in Nat
        /\ pc \in [Runs -> Locations]
        /\ own \in [Runs -> 0..Len(registry)]
        /\ target \in [Runs -> 0..Len(registry)]
        /\ metrics \in [Runs \cup {Seed} -> Metrics \cup {NoMetrics}]
    BY DEF TypeOK
  <1>2. \E l \in Locations : Goto(r, l)
    BY DEF RunStep, Start, PrepareData, Train, RegisterModel, SetChallenger,
           CheckTrainingQuality, CheckChampionGate, ReadChallenger,
           RetryPromotion, SetChampion, TriggerDeployment, Crash,
           Locations, Promoting, Ended
  <1>3. own' = own \/ own' = [own EXCEPT ![r] = Len(registry) + 1]
    BY DEF RunStep, Start, PrepareData, Train, RegisterModel, SetChallenger,
           CheckTrainingQuality, CheckChampionGate, ReadChallenger,
           RetryPromotion, SetChampion, TriggerDeployment, Crash
  <1>4. target' = target \/ target' = [target EXCEPT ![r] = challenger]
    BY DEF RunStep, Start, PrepareData, Train, RegisterModel, SetChallenger,
           CheckTrainingQuality, CheckChampionGate, ReadChallenger,
           RetryPromotion, SetChampion, TriggerDeployment, Crash
  <1>5. metrics' = metrics \/ \E m \in Metrics : metrics' = [metrics EXCEPT ![r] = m]
    BY DEF RunStep, Start, PrepareData, Train, RegisterModel, SetChallenger,
           CheckTrainingQuality, CheckChampionGate, ReadChallenger,
           RetryPromotion, SetChampion, TriggerDeployment, Crash
  <1>6. registry' = registry \/ registry' = Append(registry, r)
    BY DEF RunStep, Start, PrepareData, Train, RegisterModel, SetChallenger,
           CheckTrainingQuality, CheckChampionGate, ReadChallenger,
           RetryPromotion, SetChampion, TriggerDeployment, Crash
  <1>7. UNCHANGED <<rollback, rollbacks, overtaken>>
    BY DEF rollbackVars, RunStep, Start, PrepareData, Train, RegisterModel, SetChallenger,
           CheckTrainingQuality, CheckChampionGate, ReadChallenger,
           RetryPromotion, SetChampion, TriggerDeployment, Crash
  <1>8. /\ Len(registry') \in Len(registry)..(Len(registry) + 1)
        /\ \A v \in 1..Len(registry) : registry'[v] = registry[v]
        /\ Len(registry') # Len(registry) => registry'[Len(registry')] = r
    <2>1. CASE registry' = registry
      BY <1>1, <2>1
    <2>2. CASE registry' = Append(registry, r)
      BY <1>1, <2>2, AppendVersion DEF TypeOK
    <2>3. QED
      BY <1>6, <2>1, <2>2
  <1>9. \A q \in Runs \ {r} : pc'[q] = pc[q]
    BY <1>2, GotoType
  <1>10. \A q \in Runs \ {r} : own'[q] = own[q] /\ target'[q] = target[q]
    BY <1>1, <1>3, <1>4
  <1>11. \A q \in Runs \ {r} : metrics'[q] = metrics[q]
    BY <1>1, <1>5
  <1>12. QED
    BY <1>7, <1>8, <1>9, <1>10, <1>11

-----------------------------------------------------------------------------
(* A run that has registered a version, or is about to, has its metrics.   *)
MeasuredInv ==
    /\ RegisteredIsMeasured
    /\ \A v \in 1..Len(registry) :
          registry[v] # Seed => pc[registry[v]] \notin {"idle", "data", "train"}
    /\ \A r \in Runs : pc[r] \in {"register", "alias", "g2", "g3"} \cup Promoting
                         => metrics[r] # NoMetrics

LEMMA InitMeasured == Init => MeasuredInv
  BY DEF Init, MeasuredInv, RegisteredIsMeasured, Promoting

LEMMA RunStepMeasured ==
    ASSUME TypeOK, MeasuredInv, NEW r \in Runs,
           Start(r) \/ RunStep(r) \/ Crash(r)
    PROVE  MeasuredInv'
  <1> DEFINE Trained == {"register", "alias", "g2", "g3"} \cup Promoting
             Untrained == {"idle", "data", "train"}
  <1>1. /\ pc'[r] \in Trained => metrics'[r] # NoMetrics
        /\ pc'[r] \in Untrained => pc[r] \in Untrained
        /\ Len(registry') # Len(registry) => pc[r] = "register"
        /\ pc[r] \notin Untrained => metrics'[r] = metrics[r]
    <2> USE DEF TypeOK, MeasuredInv, Promoting, Goto
    <2>1. CASE Start(r)
      BY <2>1 DEF Start
    <2>2. CASE PrepareData(r)
      BY <2>2 DEF PrepareData
    <2>3. CASE Train(r)
      <3>1. CASE /\ Goto(r, "register")
                 /\ \E m \in Metrics : metrics' = [metrics EXCEPT ![r] = m]
        BY <2>3, <3>1 DEF Train
      <3>2. CASE Goto(r, "failed")
        BY <2>3, <3>2 DEF Train
      <3>3. QED
        BY <2>3, <3>1, <3>2 DEF Train
    <2>4. CASE RegisterModel(r)
      BY <2>4 DEF RegisterModel
    <2>5. CASE SetChallenger(r)
      BY <2>5 DEF SetChallenger
    <2>6. CASE CheckTrainingQuality(r)
      BY <2>6 DEF CheckTrainingQuality
    <2>7. CASE CheckChampionGate(r)
      BY <2>7 DEF CheckChampionGate
    <2>8. CASE ReadChallenger(r)
      BY <2>8 DEF ReadChallenger, RetryPromotion
    <2>9. CASE SetChampion(r)
      BY <2>9 DEF SetChampion, RetryPromotion
    <2>10. CASE TriggerDeployment(r)
      BY <2>10 DEF TriggerDeployment
    <2>11. CASE Crash(r)
      BY <2>11 DEF Crash
    <2>12. QED
      BY <2>1, <2>2, <2>3, <2>4, <2>5, <2>6, <2>7, <2>8, <2>9, <2>10, <2>11
         DEF RunStep
  <1>2. \A q \in Runs : pc'[q] \in Trained => metrics'[q] # NoMetrics
    BY <1>1, StepFrame DEF MeasuredInv
  <1>3. ASSUME NEW v \in 1..Len(registry'), registry'[v] # Seed
        PROVE  /\ metrics'[registry'[v]] # NoMetrics
               /\ pc'[registry'[v]] \notin Untrained
    <2>1. CASE v \in 1..Len(registry)
      <3>0. registry'[v] = registry[v]
        BY <2>1, StepFrame
      <3>1. registry'[v] = registry[v] /\ registry[v] \in Runs
        <4>1. registry[v] \in Runs \cup {Seed}
          BY <2>1 DEF TypeOK
        <4>2. QED
          BY <1>3, <3>0, <4>1
      <3>2. metrics[registry[v]] # NoMetrics /\ pc[registry[v]] \notin Untrained
        BY <1>3, <2>1, <3>1 DEF MeasuredInv, RegisteredIsMeasured
      <3>3. QED
        BY <1>1, <3>1, <3>2, StepFrame
    <2>2. CASE v \notin 1..Len(registry)
      <3>1. v = Len(registry') /\ Len(registry') # Len(registry)
        BY <2>2, StepFrame DEF TypeOK
      <3>2. registry'[v] = r /\ pc[r] = "register"
        BY <1>1, <3>1, StepFrame
      <3>3. QED
        BY <1>1, <3>2 DEF MeasuredInv
    <2>3. QED
      BY <2>1, <2>2
  <1>4. QED
    BY <1>2, <1>3 DEF MeasuredInv, RegisteredIsMeasured

LEMMA NextMeasured == TypeOK /\ MeasuredInv /\ [Next]_vars => MeasuredInv'
  <1> SUFFICES ASSUME TypeOK, MeasuredInv, [Next]_vars PROVE MeasuredInv'
    OBVIOUS
  <1>1. ASSUME UNCHANGED <<registry, metrics, pc>> PROVE MeasuredInv'
    BY <1>1 DEF MeasuredInv, RegisteredIsMeasured
  <1>2. CASE Rollback
    BY <1>1, <1>2, RollbackMoves DEF Rollback
  <1>3. CASE UNCHANGED vars
    BY <1>1, <1>3 DEF vars, runVars
  <1>4. QED
    BY <1>2, <1>3, RunStepMeasured DEF Next

(* In every behaviour, with any failures and overlaps, the only champion   *)
(* whose run can lack metrics is the seed: G3's auto-promotion for want of *)
(* the metric is confined to the first promotions over the seed.           *)
THEOREM RegisteredMeasured == Spec => []RegisteredIsMeasured
  <1>1. MeasuredInv => RegisteredIsMeasured
    BY DEF MeasuredInv
  <1>2. QED
    BY <1>1, InitMeasured, NextMeasured, TypeCorrect, PTL DEF Spec

-----------------------------------------------------------------------------
(* Runs do not overlap, every trained version gets the alias @challenger,  *)
(* and the monitoring flow rolls nothing back.                             *)
OneAtATime ==
    /\ ~Overlap
    /\ FaultyCalls \cap {"log_model", "challenger"} = {}
    /\ MaxRollbacks = 0

Gated == {"g3"} \cup Promoting

(* The version under @challenger is the own version of the run in flight   *)
(* from G2 on, and what the run is about to promote meets the floor.       *)
FloorInv ==
    /\ \A m \in Monitors : rollback[m] = 0
    /\ \A p, q \in Runs : InFlight(p) /\ InFlight(q) => p = q
    /\ \A r \in Runs :
         /\ pc[r] \in {"alias", "g2"} \cup Gated
              => own[r] # 0 /\ registry[own[r]] = r
         /\ pc[r] \in {"g2"} \cup Gated => challenger = own[r]
         /\ pc[r] \in Gated => MeetsFloor(r)
         /\ pc[r] = "setChampion" => target[r] = own[r]
    /\ ChampionMeetsFloor

LEMMA InitFloor == Init => FloorInv
  BY DEF Init, FloorInv, Gated, Promoting, InFlight, ChampionMeetsFloor

(* The own version of the run that takes a step stays under @challenger.   *)
LEMMA OwnVersionStep ==
    ASSUME TypeOK, MeasuredInv, OneAtATime, FloorInv, NEW r \in Runs,
           Start(r) \/ RunStep(r) \/ Crash(r)
    PROVE  /\ pc'[r] \in {"alias", "g2"} \cup Gated
                => own'[r] \in 1..Len(registry') /\ registry'[own'[r]] = r
           /\ pc'[r] \in {"g2"} \cup Gated => challenger' = own'[r]
           /\ pc'[r] \in Gated => MeetsFloor(r)'
           /\ pc'[r] = "setChampion" => target'[r] = own'[r]
           /\ \/ champion' = champion
              \/ /\ pc[r] = "setChampion"
                 /\ champion' = target[r]
  <1> USE DEF Gated, Promoting, Goto
  <1>0. /\ Len(registry) \in Nat
        /\ pc \in [Runs -> Locations]
        /\ own \in [Runs -> 0..Len(registry)]
        /\ target \in [Runs -> 0..Len(registry)]
    BY DEF TypeOK
  <1>1. CASE Start(r)
    BY <1>0, <1>1 DEF Start
  <1>2. CASE PrepareData(r)
    BY <1>0, <1>2 DEF PrepareData
  <1>3. CASE Train(r)
    BY <1>0, <1>3 DEF Train
  <1>4. CASE RegisterModel(r)
    <2>1. /\ registry' = Append(registry, r)
          /\ own' = [own EXCEPT ![r] = Len(registry) + 1]
          /\ pc' = [pc EXCEPT ![r] = "alias"]
      BY <1>4 DEF RegisterModel, Fault, OneAtATime
    <2>2. own'[r] = Len(registry) + 1 /\ pc'[r] = "alias"
      BY <1>0, <2>1
    <2>3. Len(registry') = Len(registry) + 1 /\ registry'[Len(registry) + 1] = r
      BY <2>1, AppendVersion DEF TypeOK
    <2>4. QED
      BY <1>0, <1>4, <2>2, <2>3 DEF RegisterModel
  <1>5. CASE SetChallenger(r)
    <2>1. challenger' = own[r]
      BY <1>5 DEF SetChallenger, Fault, OneAtATime
    <2>2. own[r] \in 1..Len(registry) /\ registry[own[r]] = r
      BY <1>0, <1>5 DEF SetChallenger, FloorInv
    <2>3. QED
      BY <1>0, <1>5, <2>1, <2>2 DEF SetChallenger
  <1>6. CASE CheckTrainingQuality(r)
    <2>1. /\ own[r] \in 1..Len(registry) /\ registry[own[r]] = r
          /\ challenger = own[r]
          /\ metrics[r] # NoMetrics
      BY <1>0, <1>6 DEF CheckTrainingQuality, FloorInv, MeasuredInv
    <2>2. pc'[r] = "g3" => MeetsFloor(r)'
      BY <1>0, <1>6, <2>1 DEF CheckTrainingQuality, MeetsFloor
    <2>3. pc'[r] \in {"g3", "failed"}
      BY <1>0, <1>6 DEF CheckTrainingQuality
    <2>4. QED
      BY <1>6, <2>1, <2>2, <2>3 DEF CheckTrainingQuality
  <1>7. CASE CheckChampionGate(r)
    <2>1. /\ own[r] \in 1..Len(registry) /\ registry[own[r]] = r
          /\ challenger = own[r]
          /\ MeetsFloor(r)
      BY <1>0, <1>7 DEF CheckChampionGate, FloorInv
    <2>2. pc'[r] \in {"readChallenger", "failed"}
      BY <1>0, <1>7 DEF CheckChampionGate
    <2>3. MeetsFloor(r)'
      BY <1>7, <2>1 DEF CheckChampionGate, MeetsFloor
    <2>4. QED
      BY <1>7, <2>1, <2>2, <2>3 DEF CheckChampionGate
  <1>8. CASE ReadChallenger(r)
    <2>1. /\ own[r] \in 1..Len(registry) /\ registry[own[r]] = r
          /\ challenger = own[r]
          /\ MeetsFloor(r)
      BY <1>0, <1>8 DEF ReadChallenger, FloorInv
    <2>2. pc'[r] = "setChampion" => target'[r] = challenger
      BY <1>0, <1>8 DEF ReadChallenger, RetryPromotion
    <2>3. MeetsFloor(r)'
      BY <1>8, <2>1 DEF ReadChallenger, MeetsFloor
    <2>4. QED
      BY <1>8, <2>1, <2>2, <2>3 DEF ReadChallenger
  <1>9. CASE SetChampion(r)
    <2>1. /\ own[r] \in 1..Len(registry) /\ registry[own[r]] = r
          /\ challenger = own[r]
          /\ MeetsFloor(r)
      BY <1>0, <1>9 DEF SetChampion, FloorInv
    <2>2. pc'[r] # "setChampion"
      BY <1>0, <1>9 DEF SetChampion, RetryPromotion
    <2>3. MeetsFloor(r)'
      BY <1>9, <2>1 DEF SetChampion, MeetsFloor
    <2>4. champion' = champion \/ champion' = target[r]
      BY <1>9 DEF SetChampion
    <2>5. QED
      BY <1>9, <2>1, <2>2, <2>3, <2>4 DEF SetChampion
  <1>10. CASE TriggerDeployment(r)
    BY <1>0, <1>10 DEF TriggerDeployment
  <1>11. CASE Crash(r)
    BY <1>0, <1>11 DEF Crash
  <1>12. QED
    BY <1>1, <1>2, <1>3, <1>4, <1>5, <1>6, <1>7, <1>8, <1>9, <1>10, <1>11
       DEF RunStep

(* Without overlap no other run is in flight when a run steps.             *)
LEMMA AloneInFlight ==
    ASSUME TypeOK, ~Overlap, NEW r \in Runs,
           \A p, q \in Runs : InFlight(p) /\ InFlight(q) => p = q,
           Start(r) \/ RunStep(r) \/ Crash(r)
    PROVE  \A q \in Runs \ {r} : ~InFlight(q) /\ ~InFlight(q)'
  <1>1. CASE Start(r)
    <2>1. \A q \in Runs : ~InFlight(q)
      BY <1>1 DEF Start
    <2>2. QED
      BY <2>1, StepFrame DEF InFlight
  <1>2. CASE RunStep(r) \/ Crash(r)
    <2>1. InFlight(r)
      BY <1>2 DEF RunStep, PrepareData, Train, RegisterModel, SetChallenger,
                  CheckTrainingQuality, CheckChampionGate, ReadChallenger,
                  SetChampion, TriggerDeployment, Crash, InFlight, Ended
    <2>2. \A q \in Runs \ {r} : ~InFlight(q)
      BY <2>1
    <2>3. QED
      BY <2>2, StepFrame DEF InFlight
  <1>3. QED
    BY <1>1, <1>2

LEMMA RunStepFloor ==
    ASSUME TypeOK, MeasuredInv, OneAtATime, FloorInv, NEW r \in Runs,
           Start(r) \/ RunStep(r) \/ Crash(r)
    PROVE  FloorInv'
  <1>1. \A q \in Runs \ {r} : ~InFlight(q) /\ ~InFlight(q)'
    BY AloneInFlight DEF FloorInv, OneAtATime
  <1>2. \A q \in Runs \ {r} : pc'[q] \notin {"alias", "g2"} \cup Gated
    BY <1>1 DEF InFlight, Gated, Promoting, Ended
  <1>3. ChampionMeetsFloor'
    <2>1. ASSUME NEW q \in Runs, MeetsFloor(q), pc[q] \notin {"idle", "data", "train"}
          PROVE  MeetsFloor(q)'
      <3>1. CASE q # r
        BY <2>1, <3>1, StepFrame DEF MeetsFloor
      <3>2. CASE q = r
        <4>1. UNCHANGED metrics
          BY <2>1, <3>2 DEF RunStep, Start, PrepareData, Train, RegisterModel,
                 SetChallenger, CheckTrainingQuality, CheckChampionGate,
                 ReadChallenger, SetChampion, TriggerDeployment, Crash
        <4>2. QED
          BY <2>1, <4>1 DEF MeetsFloor
      <3>3. QED
        BY <3>1, <3>2
    <2>2. champion \in 1..Len(registry) /\ registry'[champion] = registry[champion]
      BY StepFrame DEF TypeOK
    <2>3. CASE champion' = champion
      <3>1. CASE registry[champion] = Seed
        BY <2>2, <2>3, <3>1 DEF ChampionMeetsFloor
      <3>2. CASE registry[champion] # Seed
        <4>1. /\ registry[champion] \in Runs
              /\ MeetsFloor(registry[champion])
              /\ pc[registry[champion]] \notin {"idle", "data", "train"}
          <5>1. registry[champion] \in Runs \cup {Seed}
            BY <2>2 DEF TypeOK
          <5>2. QED
            BY <2>2, <3>2, <5>1 DEF FloorInv, ChampionMeetsFloor, MeasuredInv
        <4>2. MeetsFloor(registry[champion])'
          BY <2>1, <2>2, <2>3, <4>1 DEF MeetsFloor
        <4>3. QED
          BY <4>2 DEF ChampionMeetsFloor
      <3>3. QED
        BY <3>1, <3>2
    <2>4. CASE pc[r] = "setChampion" /\ champion' = target[r]
      <3>1. /\ registry[target[r]] = r
            /\ target[r] \in 1..Len(registry)
            /\ MeetsFloor(r)
        BY <2>4 DEF FloorInv, Gated, Promoting, TypeOK
      <3>2. registry'[champion'] = r
        BY <2>4, <3>1, StepFrame
      <3>3. MeetsFloor(r)'
        BY <2>1, <2>4, <3>1
      <3>4. QED
        BY <3>2, <3>3 DEF ChampionMeetsFloor, MeetsFloor
    <2>5. QED
      BY <2>3, <2>4, OwnVersionStep
  <1>4. \A m \in Monitors : rollback'[m] = 0
    BY StepFrame DEF FloorInv
  <1>5. \A q \in Runs :
           /\ pc'[q] \in {"alias", "g2"} \cup Gated
                => own'[q] # 0 /\ registry'[own'[q]] = q
           /\ pc'[q] \in {"g2"} \cup Gated => challenger' = own'[q]
           /\ pc'[q] \in Gated => MeetsFloor(q)'
           /\ pc'[q] = "setChampion" => target'[q] = own'[q]
    BY <1>2, OwnVersionStep DEF Gated, Promoting
  <1>6. \A p, q \in Runs : InFlight(p)' /\ InFlight(q)' => p = q
    BY <1>1
  <1>7. QED
    BY <1>3, <1>4, <1>5, <1>6 DEF FloorInv, InFlight, MeetsFloor

(* Where no rollback is allowed, none is read and none can end.            *)
LEMMA NoRollback == OneAtATime /\ TypeOK /\ FloorInv => ~Rollback
  BY DEF OneAtATime, TypeOK, FloorInv, Rollback, RollbackRead, RollbackSet,
         RollbackFails

LEMMA NextFloor ==
    ASSUME OneAtATime
    PROVE  TypeOK /\ MeasuredInv /\ FloorInv /\ [Next]_vars => FloorInv'
  <1> SUFFICES ASSUME TypeOK, MeasuredInv, FloorInv, [Next]_vars PROVE FloorInv'
    OBVIOUS
  <1>1. CASE UNCHANGED vars
    BY <1>1 DEF vars, runVars, rollbackVars, FloorInv, InFlight,
                ChampionMeetsFloor, MeetsFloor
  <1>2. ~Rollback
    BY NoRollback
  <1>3. QED
    BY <1>1, <1>2, RunStepFloor DEF Next

(* If flow runs are kept from overlapping, registration does not fail and  *)
(* nothing is rolled back, then through any crashes, registry errors in G3 *)
(* and retried promotions the champion is the seed or meets the floor.     *)
THEOREM ChampionFloor ==
    ASSUME OneAtATime
    PROVE  Spec => []ChampionMeetsFloor
  <1>1. FloorInv => ChampionMeetsFloor
    BY DEF FloorInv
  <1>2. TypeOK /\ MeasuredInv /\ FloorInv /\ [Next]_vars => FloorInv'
    BY NextFloor
  <1>3. QED
    BY <1>1, <1>2, InitFloor, InitMeasured, NextMeasured, TypeCorrect, PTL
       DEF Spec

-----------------------------------------------------------------------------
(* What a step of a run does to what the gates compare: only training sets *)
(* metrics, only the promotion moves the champion, to the run's target,    *)
(* and a run reaches G3 through G2 and the promotion through G3.           *)
LEMMA RunMoves ==
    ASSUME TypeOK, NEW r \in Runs, Start(r) \/ RunStep(r) \/ Crash(r)
    PROVE  /\ \/ metrics' = metrics
              \/ /\ pc[r] = "train" /\ pc'[r] = "register"
                 /\ champion' = champion
                 /\ \E m \in Metrics : metrics' = [metrics EXCEPT ![r] = m]
           /\ \/ champion' = champion
              \/ pc[r] = "setChampion" /\ champion' = target[r]
           /\ pc'[r] = "g3" =>
                /\ pc[r] = "g2"
                /\ PassesQuality(metrics[r], MinValAccuracy, MaxOverfitGap)
           /\ pc'[r] \in Promoting => pc[r] \in {"g3"} \cup Promoting
           /\ pc'[r] \in {"idle", "data", "train"}
                => pc[r] \in {"idle", "data"} /\ metrics' = metrics
  <1> USE DEF TypeOK, Promoting, Goto
  <1>1. CASE Start(r)
    BY <1>1 DEF Start
  <1>2. CASE PrepareData(r)
    BY <1>2 DEF PrepareData
  <1>3. CASE Train(r)
    BY <1>3 DEF Train
  <1>4. CASE RegisterModel(r)
    BY <1>4 DEF RegisterModel
  <1>5. CASE SetChallenger(r)
    BY <1>5 DEF SetChallenger
  <1>6. CASE CheckTrainingQuality(r)
    BY <1>6 DEF CheckTrainingQuality
  <1>7. CASE CheckChampionGate(r)
    BY <1>7 DEF CheckChampionGate
  <1>8. CASE ReadChallenger(r)
    BY <1>8 DEF ReadChallenger, RetryPromotion
  <1>9. CASE SetChampion(r)
    BY <1>9 DEF SetChampion, RetryPromotion
  <1>10. CASE TriggerDeployment(r)
    BY <1>10 DEF TriggerDeployment
  <1>11. CASE Crash(r)
    BY <1>11 DEF Crash
  <1>12. QED
    BY <1>1, <1>2, <1>3, <1>4, <1>5, <1>6, <1>7, <1>8, <1>9, <1>10, <1>11
       DEF RunStep

(* From G3 on a run's own metrics meet the floor, whatever others do.      *)
GateInv ==
    \A r \in Runs : pc[r] \in {"g3"} \cup Promoting => MeetsFloor(r)

LEMMA InitGate == Init => GateInv
  BY DEF Init, GateInv, Promoting

LEMMA NextGate == TypeOK /\ MeasuredInv /\ GateInv /\ [Next]_vars => GateInv'
  <1> SUFFICES ASSUME TypeOK, MeasuredInv, GateInv, [Next]_vars PROVE GateInv'
    OBVIOUS
  <1>1. ASSUME NEW r \in Runs, Start(r) \/ RunStep(r) \/ Crash(r),
               NEW q \in Runs, pc'[q] \in {"g3"} \cup Promoting
        PROVE  MeetsFloor(q)'
    <2>1. CASE q # r
      BY <1>1, <2>1, StepFrame DEF GateInv, MeetsFloor
    <2>2. CASE q = r
      <3>1. metrics' = metrics
        BY <1>1, <2>2, RunMoves DEF Promoting
      <3>2. CASE pc[q] \in {"g3"} \cup Promoting
        BY <3>1, <3>2 DEF GateInv, MeetsFloor
      <3>3. CASE pc[q] \notin {"g3"} \cup Promoting
        <4>1. pc[q] = "g2" /\ PassesQuality(metrics[q], MinValAccuracy, MaxOverfitGap)
          BY <1>1, <2>2, <3>3, RunMoves
        <4>2. metrics[q] # NoMetrics
          BY <4>1 DEF MeasuredInv
        <4>3. QED
          BY <3>1, <4>1, <4>2 DEF MeetsFloor
      <3>4. QED
        BY <3>2, <3>3
    <2>3. QED
      BY <2>1, <2>2
  <1>2. CASE Rollback
    BY <1>2, RollbackMoves DEF Rollback, GateInv, MeetsFloor
  <1>3. CASE UNCHANGED vars
    BY <1>3 DEF vars, runVars, GateInv, MeetsFloor
  <1>4. QED
    BY <1>1, <1>2, <1>3 DEF Next, GateInv

(* However runs overlap, whatever fails and whenever a rollback comes, the *)
(* run whose step moves the champion passed its own gates: a version below *)
(* the floor becomes champion only by another run's promotion.             *)
THEOREM OwnPromotionsGated == Spec => PromotionsMeetFloor
  <1>1. ASSUME TypeOK, GateInv, [Next]_vars
        PROVE  [\A r \in Runs :
                  pc'[r] # pc[r] /\ champion' # champion /\ registry[champion'] = r
                    => MeetsFloor(r)]_vars
    <2>1. SUFFICES ASSUME NEW r \in Runs, pc'[r] # pc[r], champion' # champion
                   PROVE  MeetsFloor(r)
      OBVIOUS
    <2>2. ~Rollback /\ ~UNCHANGED vars
      BY <2>1, RollbackMoves DEF Rollback, vars, runVars
    <2>3. PICK q \in Runs : Start(q) \/ RunStep(q) \/ Crash(q)
      BY <1>1, <2>2 DEF Next
    <2>4. q = r
      BY <1>1, <2>1, <2>3, StepFrame
    <2>5. pc[r] = "setChampion"
      BY <1>1, <2>1, <2>3, <2>4, RunMoves
    <2>6. QED
      BY <1>1, <2>5 DEF GateInv, Promoting
  <1>2. QED
    BY <1>1, InitGate, NextGate, InitMeasured, NextMeasured, TypeCorrect, PTL
       DEF Spec, PromotionsMeetFloor

-----------------------------------------------------------------------------
(* Only one run is in flight, so its new version is the last one and the   *)
(* @challenger it read is still the challenger: promotions only move the   *)
(* champion forward, and stay at or above what a rollback sets that no     *)
(* other one overtook.                                                     *)
ForwardInv ==
    /\ \A p, q \in Runs : InFlight(p) /\ InFlight(q) => p = q
    /\ champion = 1 \/ champion <= challenger
    /\ \A r \in Runs : pc[r] = "alias" => own[r] = Len(registry)
    /\ \A r \in Runs : pc[r] = "setChampion" => target[r] = challenger
    /\ \A m \in Monitors :
         rollback[m] # 0 =>
             /\ rollback[m] <= challenger
             /\ m \notin overtaken => RollbackTarget(m) <= champion

LEMMA InitForward == Init => ForwardInv
  BY DEF Init, ForwardInv, InFlight

(* How a step of a run moves the aliases: @challenger to the run's own     *)
(* version, @champion to its target, and what the run then remembers.      *)
LEMMA AliasMoves ==
    ASSUME TypeOK, NEW r \in Runs, Start(r) \/ RunStep(r) \/ Crash(r)
    PROVE  /\ \/ challenger' = challenger
              \/ /\ pc[r] = "alias" /\ challenger' = own[r]
                 /\ champion' = champion
           /\ \/ champion' = champion
              \/ pc[r] = "setChampion" /\ champion' = target[r]
           /\ pc'[r] = "alias" => own'[r] = Len(registry')
           /\ pc'[r] = "setChampion"
                => target'[r] = challenger /\ challenger' = challenger
  <1> USE DEF TypeOK, Goto
  <1>1. CASE Start(r)
    BY <1>1 DEF Start
  <1>2. CASE PrepareData(r)
    BY <1>2 DEF PrepareData
  <1>3. CASE Train(r)
    BY <1>3 DEF Train
  <1>4. CASE RegisterModel(r)
    <2>1. CASE /\ registry' = Append(registry, r)
               /\ own' = [own EXCEPT ![r] = Len(registry) + 1]
      <3>1. own'[r] = Len(registry) + 1
        BY <2>1
      <3>2. Len(registry') = Len(registry) + 1
        BY <2>1, AppendVersion
      <3>3. QED
        BY <1>4, <3>1, <3>2 DEF RegisterModel
    <2>2. CASE Goto(r, "g2")
      BY <1>4, <2>2 DEF RegisterModel
    <2>3. QED
      BY <1>4, <2>1, <2>2 DEF RegisterModel
  <1>5. CASE SetChallenger(r)
    BY <1>5 DEF SetChallenger
  <1>6. CASE CheckTrainingQuality(r)
    BY <1>6 DEF CheckTrainingQuality
  <1>7. CASE CheckChampionGate(r)
    BY <1>7 DEF CheckChampionGate
  <1>8. CASE ReadChallenger(r)
    BY <1>8 DEF ReadChallenger, RetryPromotion
  <1>9. CASE SetChampion(r)
    BY <1>9 DEF SetChampion, RetryPromotion
  <1>10. CASE TriggerDeployment(r)
    BY <1>10 DEF TriggerDeployment
  <1>11. CASE Crash(r)
    BY <1>11 DEF Crash
  <1>12. QED
    BY <1>1, <1>2, <1>3, <1>4, <1>5, <1>6, <1>7, <1>8, <1>9, <1>10, <1>11
       DEF RunStep

LEMMA RunStepForward ==
    ASSUME TypeOK, ForwardInv, ~Overlap, NEW r \in Runs,
           Start(r) \/ RunStep(r) \/ Crash(r)
    PROVE  ForwardInv'
  <1>1. \A q \in Runs \ {r} : ~InFlight(q) /\ ~InFlight(q)'
    BY AloneInFlight DEF ForwardInv
  <1>2. \A q \in Runs \ {r} : pc'[q] \notin {"alias", "setChampion"}
    BY <1>1 DEF InFlight, Ended
  <1>3. /\ Len(registry) \in Nat
        /\ challenger \in 0..Len(registry)
        /\ champion \in 1..Len(registry)
        /\ rollback \in [Monitors -> 0..Len(registry)]
        /\ own[r] \in 0..Len(registry)
        /\ target[r] \in 0..Len(registry)
        /\ pc[r] = "setChampion" => target[r] # 0
    BY DEF TypeOK
  <1>4. /\ pc[r] = "alias" => own[r] = Len(registry)
        /\ pc[r] = "setChampion" => target[r] = challenger
        /\ champion = 1 \/ champion <= challenger
    BY DEF ForwardInv
  <1>5. challenger <= challenger'
    BY <1>3, <1>4, AliasMoves
  <1>6. champion <= champion' /\ (champion' = 1 \/ champion' <= challenger')
    BY <1>3, <1>4, <1>5, AliasMoves
  <1>7. \A q \in Runs : pc'[q] = "alias" => own'[q] = Len(registry')
    BY <1>2, AliasMoves
  <1>8. \A q \in Runs : pc'[q] = "setChampion" => target'[q] = challenger'
    BY <1>2, AliasMoves
  <1>9. ASSUME NEW m \in Monitors, rollback'[m] # 0
        PROVE  /\ rollback'[m] <= challenger'
               /\ m \notin overtaken' => RollbackTarget(m)' <= champion'
    <2>1. rollback' = rollback /\ overtaken' = overtaken
      BY StepFrame
    <2>2. champion' \in Int /\ challenger' \in Int /\ rollback[m] \in Int
      BY <1>3, AliasMoves
    <2>3. /\ rollback[m] <= challenger
          /\ m \notin overtaken => rollback[m] - 1 <= champion
      BY <1>9, <2>1 DEF ForwardInv, RollbackTarget
    <2>4. QED
      BY <1>3, <1>5, <1>6, <2>1, <2>2, <2>3 DEF RollbackTarget
  <1>10. \A p, q \in Runs : InFlight(p)' /\ InFlight(q)' => p = q
    BY <1>1
  <1>11. QED
    BY <1>6, <1>7, <1>8, <1>9, <1>10 DEF ForwardInv, InFlight

LEMMA NextForward ==
    ASSUME ~Overlap
    PROVE  TypeOK /\ ForwardInv /\ [Next]_vars => ForwardInv'
  <1> SUFFICES ASSUME TypeOK, ForwardInv, [Next]_vars PROVE ForwardInv'
    OBVIOUS
  <1>1. ASSUME NEW m \in Monitors,
               RollbackRead(m) \/ RollbackSet(m) \/ RollbackFails(m)
        PROVE  ForwardInv'
    <2>1. /\ Len(registry) \in Nat
          /\ champion \in 1..Len(registry)
          /\ challenger \in 0..Len(registry)
          /\ rollback \in [Monitors -> 0..Len(registry)]
          /\ rollback[m] # 1
      BY DEF TypeOK
    <2>2. UNCHANGED <<registry, challenger, pc, own, target>>
      BY <1>1, RollbackMoves
    <2>3. CASE /\ champion > 1 /\ champion' = champion
               /\ rollback' = [rollback EXCEPT ![m] = champion]
               /\ overtaken' = overtaken \ {m}
      <3>1. champion <= challenger
        BY <2>1, <2>3 DEF ForwardInv
      <3>2. rollback'[m] = champion
        BY <2>1, <2>3
      <3>3. \A n \in Monitors \ {m} : rollback'[n] = rollback[n]
        BY <2>1, <2>3
      <3>4. ASSUME NEW n \in Monitors, rollback'[n] # 0
            PROVE  /\ rollback'[n] <= challenger'
                   /\ n \notin overtaken' => RollbackTarget(n)' <= champion'
        <4>1. CASE n = m
          BY <2>1, <2>2, <2>3, <3>1, <3>2, <4>1 DEF RollbackTarget
        <4>2. CASE n # m
          BY <2>2, <2>3, <3>3, <3>4, <4>2 DEF ForwardInv, RollbackTarget
        <4>3. QED
          BY <4>1, <4>2
      <3>5. QED
        BY <2>2, <2>3, <3>1, <3>4 DEF ForwardInv, InFlight
    <2>4. CASE /\ rollback[m] # 0
               /\ champion' \in {champion, RollbackTarget(m)}
               /\ rollback' = [rollback EXCEPT ![m] = 0]
               /\ overtaken' = {n \in Monitors \ {m} : rollback[n] # 0}
      <3>1. champion' = 1 \/ champion' <= challenger'
        BY <2>1, <2>2, <2>4 DEF ForwardInv, RollbackTarget
      <3>2. ASSUME NEW n \in Monitors, rollback'[n] # 0
            PROVE  /\ rollback'[n] <= challenger'
                   /\ n \notin overtaken' => RollbackTarget(n)' <= champion'
        <4>1. n # m /\ rollback'[n] = rollback[n]
          BY <2>1, <2>4, <3>2
        <4>2. QED
          BY <2>2, <2>4, <3>2, <4>1 DEF ForwardInv
      <3>3. QED
        BY <2>2, <3>1, <3>2 DEF ForwardInv, InFlight
    <2>5. QED
      BY <1>1, <2>3, <2>4, RollbackMoves
  <1>2. CASE UNCHANGED vars
    BY <1>2 DEF vars, runVars, rollbackVars, ForwardInv, InFlight, RollbackTarget
  <1>3. QED
    BY <1>1, <1>2, RunStepForward DEF Next, Rollback

-----------------------------------------------------------------------------
(* The runs past their registration; each of them made at most one         *)
(* version.                                                                *)
PastRegistration ==
    {r \in Runs : pc[r] \notin {"idle", "data", "train", "register"}}

(* There is at most one version per run besides the seed's, and version 1  *)
(* is neither promoted nor champion while a rollback that no other one     *)
(* overtook is in flight.                                                  *)
FewInv ==
    /\ Len(registry) <= 1 + Cardinality(PastRegistration)
    /\ challenger # 1
    /\ \A r \in Runs : own[r] # 1 /\ target[r] # 1
    /\ \A m \in Monitors \ overtaken : rollback[m] # 0 => champion # 1

LEMMA InitFew == Init => FewInv
  <1> SUFFICES ASSUME Init PROVE FewInv
    OBVIOUS
  <1>1. PastRegistration = {}
    BY DEF Init, PastRegistration
  <1>2. Cardinality(PastRegistration) = 0
    BY <1>1, FS_EmptySet
  <1>3. QED
    BY <1>2 DEF Init, FewInv

(* A run passes its registration once, and makes at most one version then. *)
LEMMA RegistrationMoves ==
    ASSUME TypeOK, NEW r \in Runs, Start(r) \/ RunStep(r) \/ Crash(r)
    PROVE  /\ r \in PastRegistration => r \in PastRegistration'
           /\ Len(registry') # Len(registry)
                => r \notin PastRegistration /\ r \in PastRegistration'
           /\ own'[r] \in {own[r], Len(registry) + 1}
           /\ target'[r] \in {target[r], challenger}
  <1> USE DEF TypeOK, Goto, PastRegistration
  <1>1. CASE Start(r)
    BY <1>1 DEF Start
  <1>2. CASE PrepareData(r)
    BY <1>2 DEF PrepareData
  <1>3. CASE Train(r)
    BY <1>3 DEF Train
  <1>4. CASE RegisterModel(r)
    BY <1>4 DEF RegisterModel
  <1>5. CASE SetChallenger(r)
    BY <1>5 DEF SetChallenger
  <1>6. CASE CheckTrainingQuality(r)
    BY <1>6 DEF CheckTrainingQuality
  <1>7. CASE CheckChampionGate(r)
    BY <1>7 DEF CheckChampionGate
  <1>8. CASE ReadChallenger(r)
    BY <1>8 DEF ReadChallenger, RetryPromotion
  <1>9. CASE SetChampion(r)
    BY <1>9 DEF SetChampion, RetryPromotion
  <1>10. CASE TriggerDeployment(r)
    BY <1>10 DEF TriggerDeployment
  <1>11. CASE Crash(r)
    BY <1>11 DEF Crash, InFlight, Ended
  <1>12. QED
    BY <1>1, <1>2, <1>3, <1>4, <1>5, <1>6, <1>7, <1>8, <1>9, <1>10, <1>11
       DEF RunStep

LEMMA RunStepFew ==
    ASSUME TypeOK, FewInv, NEW r \in Runs, Start(r) \/ RunStep(r) \/ Crash(r)
    PROVE  FewInv'
  <1>1. /\ Len(registry) \in Nat
        /\ own[r] \in Int
        /\ target[r] \in Int
        /\ challenger \in Int
        /\ registry # << >>
    BY DEF TypeOK
  <1>2. IsFiniteSet(PastRegistration) /\ IsFiniteSet(PastRegistration')
    BY FS_Subset DEF PastRegistration
  <1>3. /\ Cardinality(PastRegistration) \in Nat
        /\ Cardinality(PastRegistration') \in Nat
    BY <1>2, FS_CardinalityType
  <1>4. PastRegistration \subseteq PastRegistration'
    <2>1. ASSUME NEW q \in PastRegistration, q # r PROVE q \in PastRegistration'
      BY <2>1, StepFrame DEF PastRegistration
    <2>2. QED
      BY <2>1, RegistrationMoves
  <1>5. Cardinality(PastRegistration) <= Cardinality(PastRegistration')
    BY <1>2, <1>4, FS_Subset
  <1>6. Len(registry') <= 1 + Cardinality(PastRegistration')
    <2>1. CASE Len(registry') = Len(registry)
      BY <1>1, <1>3, <1>5, <2>1 DEF FewInv
    <2>2. CASE Len(registry') # Len(registry)
      <3>1. Len(registry') = Len(registry) + 1
        BY <1>1, <2>2, StepFrame
      <3>2. r \notin PastRegistration /\ r \in PastRegistration'
        BY <2>2, RegistrationMoves
      <3>3. Cardinality(PastRegistration \cup {r}) = Cardinality(PastRegistration) + 1
        BY <1>2, <3>2, FS_AddElement
      <3>4. Cardinality(PastRegistration \cup {r}) <= Cardinality(PastRegistration')
        BY <1>2, <1>4, <3>2, FS_Subset
      <3>5. QED
        BY <1>1, <1>3, <3>1, <3>3, <3>4 DEF FewInv
    <2>3. QED
      BY <2>1, <2>2
  <1>7. challenger' # 1
    BY AliasMoves DEF FewInv
  <1>8. \A q \in Runs : own'[q] # 1 /\ target'[q] # 1
    <2>1. Len(registry) + 1 # 1
      BY DEF TypeOK
    <2>2. own'[r] # 1 /\ target'[r] # 1
      BY <2>1, RegistrationMoves DEF FewInv
    <2>3. QED
      BY <2>2, StepFrame DEF FewInv
  <1>9. \A m \in Monitors \ overtaken' : rollback'[m] # 0 => champion' # 1
    BY AliasMoves, StepFrame DEF FewInv
  <1>10. QED
    BY <1>6, <1>7, <1>8, <1>9 DEF FewInv

LEMMA NextFew == TypeOK /\ FewInv /\ [Next]_vars => FewInv'
  <1> SUFFICES ASSUME TypeOK, FewInv, [Next]_vars PROVE FewInv'
    OBVIOUS
  <1>1. ASSUME NEW m \in Monitors,
               RollbackRead(m) \/ RollbackSet(m) \/ RollbackFails(m)
        PROVE  FewInv'
    <2>1. UNCHANGED <<registry, challenger, pc, own, target>>
      BY <1>1, RollbackMoves
    <2>2. rollback \in [Monitors -> 0..Len(registry)] /\ champion \in Int
      BY DEF TypeOK
    <2>3. ASSUME NEW n \in Monitors \ overtaken', rollback'[n] # 0
          PROVE  champion' # 1
      BY <1>1, <2>2, <2>3, RollbackMoves DEF FewInv
    <2>4. PastRegistration' = PastRegistration
      BY <2>1 DEF PastRegistration
    <2>5. QED
      BY <2>1, <2>3, <2>4 DEF FewInv
  <1>2. CASE UNCHANGED vars
    BY <1>2 DEF vars, runVars, rollbackVars, FewInv, PastRegistration
  <1>3. QED
    BY <1>1, <1>2, RunStepFew DEF Next, Rollback

(* Of two runs the newest version is 3 at most, so the target of a         *)
(* rollback is 2 at most, and the champion it finds is 2 at least.         *)
LEMMA TwoRunsTarget ==
    ASSUME TypeOK, FewInv, Cardinality(Runs) <= 2,
           NEW m \in Monitors \ overtaken, rollback[m] # 0
    PROVE  RollbackTarget(m) <= champion
  <1>1. /\ Cardinality(PastRegistration) <= Cardinality(Runs)
        /\ Cardinality(PastRegistration) \in Nat
        /\ Cardinality(Runs) \in Nat
    <2>1. PastRegistration \subseteq Runs
      BY DEF PastRegistration
    <2>2. IsFiniteSet(PastRegistration)
      BY <2>1, FS_Subset
    <2>3. QED
      BY <2>1, <2>2, FS_Subset, FS_CardinalityType
  <1>2. /\ Len(registry) \in Nat
        /\ rollback[m] \in 0..Len(registry)
        /\ champion \in 1..Len(registry)
    BY DEF TypeOK
  <1>3. Len(registry) <= 1 + Cardinality(PastRegistration) /\ champion # 1
    BY DEF FewInv
  <1>4. QED
    BY <1>1, <1>2, <1>3 DEF RollbackTarget

(* While training runs do not overlap, any number of them, or while there  *)
(* are at most two, no rollback of any number of monitoring runs moves the *)
(* champion to a newer version, through promotions between its read and    *)
(* its write, failed calls and crashes, unless another one overtakes it.   *)
THEOREM RollbackGoesBack == Spec => RollbackNeverAdvances
  <1> DEFINE BackInv == FewInv /\ (~Overlap => ForwardInv)
  <1>1. ASSUME TypeOK, BackInv, [Next]_vars
        PROVE  [\A m \in Monitors :
                  /\ ~Overlap \/ Cardinality(Runs) <= 2
                  /\ m \notin overtaken
                  /\ rollback[m] # 0 /\ rollback'[m] = 0
                  => champion' <= champion]_vars
    <2>1. SUFFICES ASSUME NEW m \in Monitors,
                          ~Overlap \/ Cardinality(Runs) <= 2,
                          m \notin overtaken,
                          rollback[m] # 0, rollback'[m] = 0
                   PROVE  champion' <= champion
      OBVIOUS
    <2>2. ~UNCHANGED vars
      BY <2>1 DEF vars, rollbackVars
    <2>3. ~ \E r \in Runs : Start(r) \/ RunStep(r) \/ Crash(r)
      BY <1>1, <2>1, StepFrame
    <2>4. PICK n \in Monitors : RollbackRead(n) \/ RollbackSet(n) \/ RollbackFails(n)
      BY <1>1, <2>2, <2>3 DEF Next, Rollback
    <2>5. rollback \in [Monitors -> 0..Len(registry)] /\ champion \in Int
      BY <1>1 DEF TypeOK
    <2>6. n = m /\ champion' \in {champion, RollbackTarget(m)}
      BY <2>1, <2>4, <2>5, RollbackMoves
    <2>7. RollbackTarget(m) <= champion
      BY <1>1, <2>1, TwoRunsTarget DEF ForwardInv
    <2>8. QED
      BY <2>5, <2>6, <2>7
  <1>2. Init => BackInv
    BY InitFew, InitForward
  <1>3. TypeOK /\ BackInv /\ [Next]_vars => BackInv'
    BY NextFew, NextForward
  <1> HIDE DEF BackInv
  <1>4. QED
    BY <1>1, <1>2, <1>3, TypeCorrect, PTL DEF Spec, RollbackNeverAdvances

-----------------------------------------------------------------------------
(* As OneAtATime, and the registry answers G3.                             *)
EveryGateAnswers == OneAtATime /\ "g3" \notin FaultyCalls

(* A run has no metrics before training, and between G3 and its promotion  *)
(* either beats the champion or, after a failed attempt, already is it.    *)
BeatInv ==
    \A r \in Runs :
        /\ pc[r] \in {"idle", "data", "train"} => metrics[r] = NoMetrics
        /\ pc[r] \in Promoting =>
             \/ champion = own[r]
             \/ BeatsChampion(metrics[r], ChampionMetrics, ChampionMargin)

LEMMA InitBeat == Init => BeatInv
  BY DEF Init, BeatInv, Promoting

(* A step towards a promotion leaves what G3 compared in place.            *)
LEMMA PromotingMoves ==
    ASSUME TypeOK, "g3" \notin FaultyCalls, NEW r \in Runs,
           Start(r) \/ RunStep(r) \/ Crash(r), pc'[r] \in Promoting
    PROVE  /\ registry' = registry /\ metrics' = metrics /\ own' = own
           /\ pc[r] = "g3" =>
                /\ champion' = champion
                /\ BeatsChampion(metrics[r], ChampionMetrics, ChampionMargin)
  <1> USE DEF TypeOK, Promoting, Goto
  <1>1. CASE Start(r)
    BY <1>1 DEF Start
  <1>2. CASE PrepareData(r)
    BY <1>2 DEF PrepareData
  <1>3. CASE Train(r)
    BY <1>3 DEF Train
  <1>4. CASE RegisterModel(r)
    BY <1>4 DEF RegisterModel
  <1>5. CASE SetChallenger(r)
    BY <1>5 DEF SetChallenger
  <1>6. CASE CheckTrainingQuality(r)
    BY <1>6 DEF CheckTrainingQuality
  <1>7. CASE CheckChampionGate(r)
    BY <1>7 DEF CheckChampionGate, Fault
  <1>8. CASE ReadChallenger(r)
    BY <1>8 DEF ReadChallenger
  <1>9. CASE SetChampion(r)
    BY <1>9 DEF SetChampion
  <1>10. CASE TriggerDeployment(r)
    BY <1>10 DEF TriggerDeployment
  <1>11. CASE Crash(r)
    BY <1>11 DEF Crash
  <1>12. QED
    BY <1>1, <1>2, <1>3, <1>4, <1>5, <1>6, <1>7, <1>8, <1>9, <1>10, <1>11
       DEF RunStep

LEMMA RunStepBeat ==
    ASSUME TypeOK, FloorInv, BeatInv, EveryGateAnswers, NEW r \in Runs,
           Start(r) \/ RunStep(r) \/ Crash(r)
    PROVE  BeatInv'
  <1>1. \A q \in Runs \ {r} : pc'[q] \notin Promoting
    <2>1. \A q \in Runs \ {r} : ~InFlight(q)'
      BY AloneInFlight DEF FloorInv, EveryGateAnswers, OneAtATime
    <2>2. QED
      BY <2>1 DEF InFlight, Promoting, Ended
  <1>2. ASSUME NEW q \in Runs, pc'[q] \in {"idle", "data", "train"}
        PROVE  metrics'[q] = NoMetrics
    <2>1. CASE q # r
      BY <1>2, <2>1, StepFrame DEF BeatInv
    <2>2. CASE q = r
      BY <1>2, <2>2, RunMoves DEF BeatInv
    <2>3. QED
      BY <2>1, <2>2
  <1>3. ASSUME pc'[r] \in Promoting
        PROVE  \/ champion' = own'[r]
               \/ BeatsChampion(metrics[r], ChampionMetrics, ChampionMargin)'
    <2>1. registry' = registry /\ metrics' = metrics /\ own' = own
      BY <1>3, PromotingMoves DEF EveryGateAnswers
    <2>2. CASE champion' = champion
      <3>1. \/ champion = own[r]
            \/ BeatsChampion(metrics[r], ChampionMetrics, ChampionMargin)
        BY <1>3, RunMoves, PromotingMoves DEF BeatInv, EveryGateAnswers
      <3>2. QED
        BY <2>1, <2>2, <3>1 DEF ChampionMetrics
    <2>3. CASE pc[r] = "setChampion" /\ champion' = target[r]
      BY <2>1, <2>3 DEF FloorInv
    <2>4. QED
      BY <2>2, <2>3, RunMoves
  <1>4. QED
    BY <1>1, <1>2, <1>3 DEF BeatInv

LEMMA NextBeat ==
    ASSUME EveryGateAnswers
    PROVE  TypeOK /\ FloorInv /\ BeatInv /\ [Next]_vars => BeatInv'
  <1> SUFFICES ASSUME TypeOK, FloorInv, BeatInv, [Next]_vars PROVE BeatInv'
    OBVIOUS
  <1>1. CASE UNCHANGED vars
    BY <1>1 DEF vars, runVars, BeatInv, ChampionMetrics
  <1>2. ~Rollback
    BY NoRollback DEF EveryGateAnswers
  <1>3. QED
    BY <1>1, <1>2, RunStepBeat DEF Next

(* A step that moves the champion makes the own version of a gated run     *)
(* champion, over a champion that this run beats.                          *)
LEMMA PromotionStep ==
    ASSUME TypeOK, MeasuredInv, FloorInv, BeatInv, NEW r \in Runs,
           Start(r) \/ RunStep(r) \/ Crash(r), champion' # champion
    PROVE  /\ registry'[champion'] = r
           /\ metrics' = metrics
           /\ MeetsFloor(r)
           /\ BeatsChampion(metrics[r], ChampionMetrics, ChampionMargin)
  <1>1. pc[r] = "setChampion" /\ champion' = target[r] /\ metrics' = metrics
    BY RunMoves
  <1>2. /\ target[r] = own[r] /\ registry[own[r]] = r /\ MeetsFloor(r)
        /\ target[r] \in 1..Len(registry)
    BY <1>1 DEF FloorInv, Gated, Promoting, TypeOK
  <1>3. BeatsChampion(metrics[r], ChampionMetrics, ChampionMargin)
    BY <1>1, <1>2 DEF BeatInv, Promoting
  <1>4. registry'[target[r]] = r
    BY <1>2, StepFrame
  <1>5. QED
    BY <1>1, <1>2, <1>3, <1>4

(* Every step of the pipeline measures a candidate, passes the title to    *)
(* one that met both gates, or changes nothing the gates promise about.    *)
LEMMA NextImplements ==
    ASSUME EveryGateAnswers, TypeOK, MeasuredInv, FloorInv, BeatInv, [Next]_vars
    PROVE  [Gates!Next]_(Gates!vars)
  <1>1. CASE UNCHANGED vars
    BY <1>1 DEF vars, Gates!vars
  <1>2. ASSUME NEW r \in Runs, Start(r) \/ RunStep(r) \/ Crash(r)
        PROVE  [Gates!Next]_(Gates!vars)
    <2>1. registry'[champion] = registry[champion]
      BY <1>2, StepFrame DEF TypeOK
    <2>2. CASE champion' # champion
      <3>1. /\ registry'[champion'] = r
            /\ metrics' = metrics
            /\ metrics[r] # NoMetrics
            /\ PassesQuality(metrics[r], MinValAccuracy, MaxOverfitGap)
            /\ BeatsChampion(metrics[r], metrics[registry[champion]], ChampionMargin)
        BY <1>2, <2>2, PromotionStep DEF MeetsFloor, ChampionMetrics
      <3>2. Gates!Promote(r)
        BY <3>1 DEF Gates!Promote, Gates!PassesQuality, Gates!BeatsChampion,
                    PassesQuality, BeatsChampion
      <3>3. QED
        BY <3>2 DEF Gates!Next
    <2>3. CASE champion' = champion /\ metrics' = metrics
      BY <2>1, <2>3 DEF Gates!vars
    <2>4. CASE /\ champion' = champion
               /\ pc[r] = "train"
               /\ \E m \in Metrics : metrics' = [metrics EXCEPT ![r] = m]
      <3>1. metrics[r] = NoMetrics
        BY <2>4 DEF BeatInv
      <3>2. Gates!Measure(r)
        BY <2>1, <2>4, <3>1 DEF Gates!Measure
      <3>3. QED
        BY <3>2 DEF Gates!Next
    <2>5. QED
      BY <1>2, <2>2, <2>3, <2>4, RunMoves
  <1>3. ~Rollback
    BY NoRollback DEF EveryGateAnswers
  <1>4. QED
    BY <1>1, <1>2, <1>3 DEF Next

(* What the invariants of one run at a time amount to, as one fact.        *)
LEMMA GatedInvariants ==
    ASSUME EveryGateAnswers
    PROVE  Spec => [](TypeOK /\ MeasuredInv /\ FloorInv /\ BeatInv)
  <1>1. TypeOK /\ MeasuredInv /\ FloorInv /\ [Next]_vars => FloorInv'
    BY NextFloor DEF EveryGateAnswers
  <1>2. TypeOK /\ FloorInv /\ BeatInv /\ [Next]_vars => BeatInv'
    BY NextBeat
  <1>3. QED
    BY <1>1, <1>2, InitMeasured, InitFloor, InitBeat, NextMeasured, TypeCorrect,
       PTL DEF Spec

(* One run at a time, registration that does not fail and a registry that  *)
(* answers G3: through crashes and retried promotions whose failed attempt *)
(* may have moved the alias, the champion only changes to a better one.    *)
THEOREM PromotionsImprove ==
    ASSUME EveryGateAnswers
    PROVE  Spec => ChampionImproves
  <1>1. ASSUME TypeOK, MeasuredInv, FloorInv, BeatInv, [Next]_vars
        PROVE  [champion' # champion =>
                  BeatsChampion(metrics[registry'[champion']], ChampionMetrics,
                                ChampionMargin)]_vars
    <2>1. SUFFICES ASSUME champion' # champion
                   PROVE  BeatsChampion(metrics[registry'[champion']],
                                        ChampionMetrics, ChampionMargin)
      OBVIOUS
    <2>2. ~Rollback /\ ~UNCHANGED vars
      BY <1>1, <2>1, NoRollback DEF EveryGateAnswers, vars
    <2>3. PICK r \in Runs : Start(r) \/ RunStep(r) \/ Crash(r)
      BY <1>1, <2>2 DEF Next
    <2>4. QED
      BY <1>1, <2>1, <2>3, PromotionStep
  <1>2. QED
    BY <1>1, GatedInvariants, PTL DEF Spec, ChampionImproves

(* Under the same conditions the pipeline, with its registry, aliases and  *)
(* retries, implements the abstract promise of the gates.                  *)
THEOREM PipelineImplementsGates ==
    ASSUME EveryGateAnswers
    PROVE  Spec => ImplementsGatedPromotion
  <1>1. Init => Gates!Init
    BY DEF Init, Gates!Init
  <1>2. TypeOK /\ MeasuredInv /\ FloorInv /\ BeatInv /\ [Next]_vars
          => [Gates!Next]_(Gates!vars)
    BY NextImplements
  <1>3. QED
    BY <1>1, <1>2, GatedInvariants, PTL
       DEF Spec, ImplementsGatedPromotion, Gates!Spec

=============================================================================
