------------------------- MODULE ContinuousTraining -------------------------
(***************************************************************************)
(* Runs of continuous_training_flow, and the rollback of the monitoring    *)
(* flow, over one MLflow model registry.                                   *)
(*                                                                         *)
(* A step of a run is one call whose effect another process can see.  The  *)
(* registry gives consecutive numbers to versions, remembers which         *)
(* training run made each, and holds the aliases @challenger and           *)
(* @champion.  A registry call may fail (up to MaxFaults of them do), and  *)
(* the code's answer to the failure is part of the action that makes it.   *)
(***************************************************************************)
EXTENDS QualityGates, Sequences, FiniteSets

CONSTANTS
    Runs,             \* the continuous-training flow runs
    Monitors,         \* the monitoring flow runs that may be rolling back
    Seed,             \* the run of seed_registry_model.py that made version 1
    Accuracies,       \* values best_val_accuracy takes
    Gaps,             \* values of val_loss - train_loss
    MinValAccuracy,   \* G2 thresholds
    MaxOverfitGap,
    ChampionMargin,   \* G3 margin
    PromoteRetries,   \* retries of the promote-to-champion task
    Overlap,          \* may two flow runs be in flight together?
    FaultyCalls,      \* which calls may fail: a subset of Calls
    MaxFaults,        \* bound: how many of them do
    MaxRollbacks      \* bound: rollbacks of the monitoring flow

Calls == {"log_model", "challenger", "g3", "promote", "rollback", "crash"}

ASSUME ParameterAssumption ==
    /\ IsFiniteSet(Runs)
    /\ Seed \notin Runs
    /\ Accuracies \subseteq Int
    /\ Gaps \subseteq Int
    /\ MinValAccuracy \in Int
    /\ MaxOverfitGap \in Int
    /\ ChampionMargin \in Nat
    /\ PromoteRetries \in Nat
    /\ Overlap \in BOOLEAN
    /\ FaultyCalls \subseteq Calls
    /\ MaxFaults \in Nat
    /\ MaxRollbacks \in Nat

Metrics == [acc : Accuracies, gap : Gaps]

ASSUME NoMetricsAssumption == NoMetrics \notin Metrics

VARIABLES
    registry,     \* version number -> the training run it came from
    metrics,      \* training run -> the metrics MLflow holds for it
    challenger,   \* the version of alias @challenger, 0 when unset
    champion,     \* the version of alias @champion
    pc,           \* where each flow run is
    own,          \* model_info.registered_model_version of the run, 0 if None
    target,       \* the version promote_to_champion read from @challenger
    attempt,      \* retries promote_to_champion has used
    rollback,     \* the champion version each monitoring run's
                  \* _trigger_rollback read, 0 outside it
    faults,       \* calls that have failed so far
    rollbacks,    \* rollbacks so far
    overtaken     \* history: the monitoring runs with a rollback under way
                  \* during which the rollback of another one ended

runVars == <<pc, own, target, attempt>>
rollbackVars == <<rollback, rollbacks, overtaken>>
vars == <<registry, metrics, challenger, champion, runVars, faults,
          rollbackVars>>

-----------------------------------------------------------------------------
Ended == {"completed", "skipped", "failed"}
Promoting == {"readChallenger", "setChampion"}
Locations == {"idle", "data", "train", "register", "alias", "g2", "g3",
              "deploy"} \cup Promoting \cup Ended

InFlight(r) == pc[r] \notin {"idle"} \cup Ended

Goto(r, l) == pc' = [pc EXCEPT ![r] = l]

Fault(call) ==
    /\ call \in FaultyCalls
    /\ faults < MaxFaults
    /\ faults' = faults + 1

(* The metrics of the run behind the current champion, as G3 looks them up *)
(* through the alias.                                                      *)
ChampionMetrics == metrics[registry[champion]]

-----------------------------------------------------------------------------
(* A fresh deployment: seed_registry_model.py registers an untrained model *)
(* without metrics and makes it champion before any worker starts.         *)
Init ==
    /\ registry = <<Seed>>
    /\ metrics = [r \in Runs \cup {Seed} |-> NoMetrics]
    /\ challenger = 0
    /\ champion = 1
    /\ pc = [r \in Runs |-> "idle"]
    /\ own = [r \in Runs |-> 0]
    /\ target = [r \in Runs |-> 0]
    /\ attempt = [r \in Runs |-> 0]
    /\ rollback = [m \in Monitors |-> 0]
    /\ faults = 0
    /\ rollbacks = 0
    /\ overtaken = {}

-----------------------------------------------------------------------------
(* The worker picks up a flow run.  The served deployments have no         *)
(* concurrency limit, so runs overlap unless the operator sees to it.      *)
Start(r) ==
    /\ pc[r] = "idle"
    /\ Overlap \/ \A q \in Runs : ~InFlight(q)
    /\ Goto(r, "data")
    /\ UNCHANGED <<registry, metrics, challenger, champion, own, target,
                   attempt, faults, rollbackVars>>

(* resolve_round_number, integrate_training_data, G1 and DVC versioning:   *)
(* no data skips the round, an exception or a failed G1 fails it.          *)
PrepareData(r) ==
    /\ pc[r] = "data"
    /\ \E l \in {"skipped", "failed", "train"} : Goto(r, l)
    /\ UNCHANGED <<registry, metrics, challenger, champion, own, target,
                   attempt, faults, rollbackVars>>

(* Mutant: the metrics reach MLflow only after the model is registered.    *)
TrainUnlogged(r) ==
    /\ pc[r] = "train"
    /\ Goto(r, "register")
    /\ UNCHANGED <<registry, metrics, challenger, champion, own, target,
                   attempt, faults, rollbackVars>>

(* Training ends with its metrics logged to the MLflow run, or raises.     *)
Train(r) ==
    /\ pc[r] = "train"
    /\ \/ /\ \E m \in Metrics : metrics' = [metrics EXCEPT ![r] = m]
          /\ Goto(r, "register")
       \/ /\ Goto(r, "failed")
          /\ UNCHANGED metrics
    /\ UNCHANGED <<registry, challenger, champion, own, target, attempt,
                   faults, rollbackVars>>

(* log_model creates the next version, before any gate has looked at the   *)
(* metrics.  A failure is swallowed, with or without the version created,  *)
(* and model_info stays None.                                              *)
RegisterModel(r) ==
    /\ pc[r] = "register"
    /\ \/ /\ registry' = Append(registry, r)
          /\ own' = [own EXCEPT ![r] = Len(registry) + 1]
          /\ Goto(r, "alias")
          /\ UNCHANGED faults
       \/ /\ Fault("log_model")
          /\ registry' \in {registry, Append(registry, r)}
          /\ Goto(r, "g2")
          /\ UNCHANGED own
    /\ UNCHANGED <<metrics, challenger, champion, target, attempt, rollbackVars>>

(* Mutant: an alias that exists already is left where it is.               *)
SetChallengerOnce(r) ==
    /\ pc[r] = "alias"
    /\ Goto(r, "g2")
    /\ challenger' = IF challenger = 0 THEN own[r] ELSE challenger
    /\ UNCHANGED <<registry, metrics, champion, own, target, attempt,
                   faults, rollbackVars>>

(* The new version becomes @challenger; a failure is swallowed.            *)
SetChallenger(r) ==
    /\ pc[r] = "alias"
    /\ Goto(r, "g2")
    /\ \/ challenger' = own[r] /\ UNCHANGED faults
       \/ Fault("challenger") /\ UNCHANGED challenger
    /\ UNCHANGED <<registry, metrics, champion, own, target, attempt,
                   rollbackVars>>

(* Mutant: the overfitting check is computed but does not fail the gate.   *)
CheckTrainingQualityAccuracyOnly(r) ==
    /\ pc[r] = "g2"
    /\ IF metrics[r].acc >= MinValAccuracy
       THEN Goto(r, "g3")
       ELSE Goto(r, "failed")
    /\ UNCHANGED <<registry, metrics, challenger, champion, own, target,
                   attempt, faults, rollbackVars>>

(* G2 judges the metrics training returned.                                *)
CheckTrainingQuality(r) ==
    /\ pc[r] = "g2"
    /\ IF PassesQuality(metrics[r], MinValAccuracy, MaxOverfitGap)
       THEN Goto(r, "g3")
       ELSE Goto(r, "failed")
    /\ UNCHANGED <<registry, metrics, challenger, champion, own, target,
                   attempt, faults, rollbackVars>>

(* Mutant: the margin is granted to the challenger instead of demanded.    *)
CheckChampionGateLenient(r) ==
    /\ pc[r] = "g3"
    /\ IF BeatsChampion(metrics[r], ChampionMetrics, -ChampionMargin)
       THEN Goto(r, "readChallenger")
       ELSE Goto(r, "failed")
    /\ UNCHANGED <<registry, metrics, challenger, champion, own, target,
                   attempt, faults, rollbackVars>>

(* G3 compares the same metrics with the champion's.  Any MlflowException, *)
(* not only a missing alias, is read as "no champion" and passes.          *)
CheckChampionGate(r) ==
    /\ pc[r] = "g3"
    /\ \/ /\ BeatsChampion(metrics[r], ChampionMetrics, ChampionMargin)
          /\ Goto(r, "readChallenger")
          /\ UNCHANGED faults
       \/ /\ ~BeatsChampion(metrics[r], ChampionMetrics, ChampionMargin)
          /\ Goto(r, "failed")
          /\ UNCHANGED faults
       \/ /\ Fault("g3")
          /\ Goto(r, "readChallenger")
    /\ UNCHANGED <<registry, metrics, challenger, champion, own, target,
                   attempt, rollbackVars>>

-----------------------------------------------------------------------------
(* Mutant: the retries of a promotion are not counted.                     *)
RetryPromotionForever(r) ==
    /\ Goto(r, "readChallenger")
    /\ UNCHANGED attempt

(* A raised exception reruns promote_to_champion from its start until its  *)
(* retries are spent, then fails the flow run.                             *)
RetryPromotion(r) ==
    IF attempt[r] < PromoteRetries
    THEN /\ attempt' = [attempt EXCEPT ![r] = @ + 1]
         /\ Goto(r, "readChallenger")
    ELSE /\ Goto(r, "failed")
         /\ UNCHANGED attempt

(* The promotion looks up @challenger as it is now, not the version the    *)
(* run registered.                                                         *)
ReadChallenger(r) ==
    /\ pc[r] = "readChallenger"
    /\ \/ /\ challenger # 0
          /\ target' = [target EXCEPT ![r] = challenger]
          /\ Goto(r, "setChampion")
          /\ UNCHANGED <<attempt, faults>>
       \/ /\ challenger = 0
          /\ RetryPromotion(r)
          /\ UNCHANGED <<target, faults>>
       \/ /\ Fault("promote")
          /\ RetryPromotion(r)
          /\ UNCHANGED target
    /\ UNCHANGED <<registry, metrics, challenger, champion, own, rollbackVars>>

(* The alias call succeeds, or raises with the alias moved or not.         *)
SetChampion(r) ==
    /\ pc[r] = "setChampion"
    /\ \/ /\ champion' = target[r]
          /\ Goto(r, "deploy")
          /\ UNCHANGED <<attempt, faults>>
       \/ /\ Fault("promote")
          /\ RetryPromotion(r)
          /\ champion' \in {champion, target[r]}
    /\ UNCHANGED <<registry, metrics, challenger, own, target, rollbackVars>>

(* _trigger_canary_deployment swallows whatever deployment_flow does.      *)
TriggerDeployment(r) ==
    /\ pc[r] = "deploy"
    /\ Goto(r, "completed")
    /\ UNCHANGED <<registry, metrics, challenger, champion, own, target,
                   attempt, faults, rollbackVars>>

(* The worker process dies: nobody resumes the run.                        *)
Crash(r) ==
    /\ InFlight(r)
    /\ Fault("crash")
    /\ Goto(r, "failed")
    /\ UNCHANGED <<registry, metrics, challenger, champion, own, target,
                   attempt, rollbackVars>>

-----------------------------------------------------------------------------
(* Mutant: the "no previous version" return is missing.                    *)
RollbackReadAny(m) ==
    /\ rollback[m] = 0
    /\ rollbacks < MaxRollbacks
    /\ rollback' = [rollback EXCEPT ![m] = champion]
    /\ rollbacks' = rollbacks + 1
    /\ overtaken' = overtaken \ {m}
    /\ UNCHANGED <<registry, metrics, challenger, champion, runVars, faults>>

(* _trigger_rollback on HIGH drift: read @champion and the list of         *)
(* versions; with no lower version it returns.  Nothing keeps the          *)
(* monitoring runs of several triggers apart, and one monitoring run after *)
(* another may roll back.                                                  *)
RollbackRead(m) ==
    /\ rollback[m] = 0
    /\ rollbacks < MaxRollbacks
    /\ champion > 1
    /\ rollback' = [rollback EXCEPT ![m] = champion]
    /\ rollbacks' = rollbacks + 1
    /\ overtaken' = overtaken \ {m}
    /\ UNCHANGED <<registry, metrics, challenger, champion, runVars, faults>>

(* Mutant: the versions are not filtered by the champion's number.         *)
RollbackTargetLatest(m) == Len(registry)

(* The highest version below the one read takes @champion; versions are    *)
(* never deleted, so that is its predecessor.                              *)
RollbackTarget(m) == rollback[m] - 1

RollbackEnds(m) ==
    /\ rollback' = [rollback EXCEPT ![m] = 0]
    /\ overtaken' = {n \in Monitors \ {m} : rollback[n] # 0}
    /\ UNCHANGED <<registry, metrics, challenger, runVars, rollbacks>>

RollbackSet(m) ==
    /\ rollback[m] # 0
    /\ champion' = RollbackTarget(m)
    /\ RollbackEnds(m)
    /\ UNCHANGED faults

(* A registry call that raises ends the rollback, with the alias moved or  *)
(* not; only a counter records it.                                         *)
RollbackFails(m) ==
    /\ rollback[m] # 0
    /\ Fault("rollback")
    /\ champion' \in {champion, RollbackTarget(m)}
    /\ RollbackEnds(m)

-----------------------------------------------------------------------------
RunStep(r) ==
    \/ PrepareData(r)
    \/ Train(r)
    \/ RegisterModel(r)
    \/ SetChallenger(r)
    \/ CheckTrainingQuality(r)
    \/ CheckChampionGate(r)
    \/ ReadChallenger(r)
    \/ SetChampion(r)
    \/ TriggerDeployment(r)

Rollback ==
    \E m \in Monitors : RollbackRead(m) \/ RollbackSet(m) \/ RollbackFails(m)

Next ==
    \/ \E r \in Runs : Start(r) \/ RunStep(r) \/ Crash(r)
    \/ Rollback

Spec == Init /\ [][Next]_vars

(* A worker that picked up a run keeps executing it: every call returns or *)
(* raises, and the retries are bounded.  Nothing forces a run to start or  *)
(* a rollback to happen.                                                   *)
FairSpec == Spec /\ \A r \in Runs : WF_vars(RunStep(r))

-----------------------------------------------------------------------------
(* The type invariant, with the aliases naming registered versions.        *)
TypeOK ==
    /\ registry \in Seq(Runs \cup {Seed})
    /\ metrics \in [Runs \cup {Seed} -> Metrics \cup {NoMetrics}]
    /\ challenger \in 0..Len(registry)
    /\ champion \in 1..Len(registry)
    /\ pc \in [Runs -> Locations]
    /\ own \in [Runs -> 0..Len(registry)]
    /\ target \in [Runs -> 0..Len(registry)]
    /\ \A r \in Runs : pc[r] = "setChampion" => target[r] # 0
    /\ attempt \in [Runs -> 0..PromoteRetries]
    /\ rollback \in [Monitors -> 0..Len(registry)]
    /\ \A m \in Monitors : rollback[m] # 1
    /\ faults \in 0..MaxFaults
    /\ rollbacks \in 0..MaxRollbacks
    /\ overtaken \subseteq Monitors

MeetsFloor(r) ==
    /\ metrics[r] # NoMetrics
    /\ PassesQuality(metrics[r], MinValAccuracy, MaxOverfitGap)

(* Whatever becomes champion passed the quality floor of G2 (or is the     *)
(* seed).  The promotion trusts the alias @challenger for this, so it      *)
(* needs every run to have put its own version there: runs do not overlap  *)
(* and neither log_model nor the challenger alias call fails.  G3 errors,  *)
(* retried promotions and worker crashes do not matter.                    *)
ChampionMeetsFloor ==
    registry[champion] = Seed \/ MeetsFloor(registry[champion])

(* The champion only ever changes to a version that beats the one it       *)
(* replaces by the margin of G3, across retried promotions whose first     *)
(* attempt may already have moved the alias.                               *)
ChampionImproves ==
    [][champion' # champion =>
         BeatsChampion(metrics[registry'[champion']], ChampionMetrics,
                       ChampionMargin)]_vars

(* However runs overlap, whatever fails and whenever a rollback comes, a   *)
(* run that makes its own version champion makes one champion that meets   *)
(* the floor: a version below it is only ever promoted by another run.     *)
PromotionsMeetFloor ==
    [][\A r \in Runs :
         pc'[r] # pc[r] /\ champion' # champion /\ registry[champion'] = r
             => MeetsFloor(r)]_vars

(* Where training runs do not overlap, or are at most two, a rollback      *)
(* never moves the champion to a newer version than the one it finds,      *)
(* although a promotion may land between its read and its write, and       *)
(* however many rollbacks came before.  Two things do break it: three      *)
(* overlapping training runs, of which one promotes an older version       *)
(* between the two, and another rollback that ends between the two: one    *)
(* reads version 3, others go back to 2 and to 1, and its write moves the  *)
(* champion forward to 2.                                                  *)
RollbackNeverAdvances ==
    [][\A m \in Monitors :
         /\ ~Overlap \/ Cardinality(Runs) <= 2
         /\ m \notin overtaken
         /\ rollback[m] # 0 /\ rollback'[m] = 0
         => champion' <= champion]_vars

(* Whatever fails and however runs overlap, the metrics of a registered    *)
(* version are in MLflow before the version can carry an alias: only the   *)
(* seed is ever auto-promoted over because its run lacks the metric.       *)
RegisteredIsMeasured ==
    \A v \in 1..Len(registry) :
        registry[v] # Seed => metrics[registry[v]] # NoMetrics

(* A flow run that starts always ends: completed, skipped or failed.       *)
EveryRunEnds ==
    \A r \in Runs : pc[r] = "data" ~> pc[r] \in Ended

(* "If no champion exists, auto-promotes": G3 passes a run over a champion *)
(* only by comparing their metrics.                                        *)
G3PassBeatsChampion ==
    [][\A r \in Runs :
         pc[r] = "g3" /\ pc'[r] = "readChallenger"
             => BeatsChampion(metrics[r], ChampionMetrics, ChampionMargin)]_vars

-----------------------------------------------------------------------------
(* The champion's training run is the holder of the abstract title.  Where *)
(* runs do not overlap and the only failures are crashes and failed        *)
(* promotions, the whole pipeline implements the promise of the gates.     *)
Gates == INSTANCE GatedPromotion
    WITH Candidates <- Runs, measured <- metrics, holder <- registry[champion]

ImplementsGatedPromotion == Gates!Spec

=============================================================================
