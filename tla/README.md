# A TLA+ development of the data flywheel

The repository is an MLOps platform: an image classifier is served behind an
API, its confident predictions are collected as pseudo-labels, its uncertain
ones go to human labellers, and Prefect flows retrain, gate, deploy and monitor
the next model. The platform's own logic is the glue: which call happens before
which, who may overlap with whom, what a failed call leaves behind, and what a
quality gate is worth when that happens. That glue is what is specified here.

* [Inventory](#inventory): the parts of the system
* [Modules](#modules): what each module models, and how it reads against the code
* [Runs](#runs): what TLC checks, with which bounds
* [Proofs](#proofs): what TLAPS proves, and from what
* [Where code and documents differ](#where-code-and-documents-differ)
* [What is left out](#what-is-left-out) and the [plan](#plan)

`PROJECT.json` holds the same information for tools: the components, the runs,
the source lines of every definition, a mutant for every property (a plausible
bug of the code that the run finds), the hazards and the theorems.

## Inventory

Paths are relative to `src/src/core/` unless they begin with another directory.

### Training and promotion

**Continuous-training flow** (`orchestration/flows/continuous_training_flow.py`,
`orchestration/tasks/continuous_training_tasks.py`). State: none of its own; it
works on MLflow's registry (numbered versions, each with the run that made it;
the aliases `@challenger` and `@champion`), MLflow's run metrics, a round counter
in S3 and one shared directory of training data. Steps: resolve the round
number, integrate human and pseudo labels, validate (G1), version, train, check
the training metrics (G2), compare with the champion (G3), promote, deploy. The
flow has no retries; most of its tasks have one or two. It is served without a
concurrency limit (`orchestration/flows/serve_all.py`) and triggered by the
monitoring flow, the accumulation flow, the labelling webhook and by hand, so
runs overlap.

* Hard: overlapping runs share both aliases, the counter and the directory; a
  retried promotion reads `@challenger` again; swallowed errors in registration
  and in G3; a worker that dies leaves its run unfinished for good.
* Correct when: what becomes champion has passed the floor of G2 and beats the
  champion it replaces by the margin of G3; a version that can be promoted has
  its metrics in MLflow; a run that starts ends.

**Trainer** (`plugins/cv/trainer.py`). Logs the metrics, registers the model and
makes it `@challenger`, in this order, and before any gate.

**Seeding** (`src/scripts/seed_registry_model.py`). Version 1, untrained and without
the metric G3 compares, is champion from the start.

**Rollback** (`orchestration/flows/monitoring_flow.py`, `_trigger_rollback`). On
HIGH drift, moves `@champion` to the highest version number below its own, then
asks the API to reload.

* Hard: it reads the champion, lists versions and writes the alias in three
  calls, while a promotion or the rollback of another monitoring run may land in
  between (monitoring runs are served without a limit too); the version it falls
  back to may never have been promoted.
* Correct when: a promotion is still gated, and the rollback goes backwards.

### Deployment

**Canary deployment flow** (`orchestration/flows/deployment_flow.py`,
`orchestration/tasks/deployment_tasks.py`). State it drives: the container
`api-canary` (running or not, with which model), the upstream file inside the
nginx container, the configuration the nginx process runs with, and the model of
the container `api`. Steps: start the canary, wait for its health, split the
traffic, check G4 a number of times, then restore the traffic, and on success
reload the champion API; stop the canary.

* Hard: the file and the running nginx change in two commands; an exception
  anywhere ends the flow and restores nothing; two deployments share the one
  canary; containers restart by themselves (`restart: unless-stopped`).
* Correct when: traffic goes only to a canary that runs; a deployment that
  reports an outcome has put the traffic back; a canary passes with no verdict
  against it; G4 judges the model that was promoted; the API serves what was
  promoted; a deployment ends.

**G4** (`orchestration/tasks/canary_gate.py`, `monitoring/canary_metrics.py`). Error
rate against a ceiling, error rate and P99 latency against the champion's. What
Prometheus does not know counts as passed. The task has one retry, and raises
where its artifact cannot be written: the retry then measures again, and a
failure that was measured is forgotten.

### Serving

**API** (`serving/api/app.py`, `routes.py`, `dependencies.py`). Per gunicorn
worker: the loaded model, a prediction logger, an accumulator, a router. Loads its model at
start (serving without one when that fails), reloads on request, flushes its
buffers at shutdown.

**Prediction logger** (`monitoring/prediction_logger.py`) and **auto accumulator**
(`active_learning/accumulator/auto_accumulator.py`). State: a list under a lock.
Additions append; the one that fills the buffer takes it whole, uploads it
outside the lock as one S3 object, and puts the records back in front when the
upload raises. The accumulator uploads the image of a sample first.

* Hard: other threads add and flush during the upload; an upload may be stored
  although its caller sees an error; the process may die with a batch in hand.
* Correct when: a record is pending until it is stored and only the end of the
  process loses it; nothing but a lost answer duplicates it; a stored record's
  image exists, and an image has its record until a failure or the cleanup of the
  accumulation flow parts them; a flush returns.

**Reload synchronisation** (`serving/reload_sync.py`). A Redis channel on which a
worker that was told to reload tells the others. A worker ignores its own
messages, which it recognises by process id; a listener whose connection fails
ends for good.

* Hard: reloads received by two workers cross; a handler and the listener of a
  worker both assign the model; messages are lost while a subscriber is down;
  the `api` and `api-canary` containers share the channel, not their pids.
* Correct when: after the last reload, the workers serve the same version.

### Data collection

**Data accumulation flow** (`orchestration/flows/data_accumulation_flow.py`,
`orchestration/tasks/active_learning_tasks.py`). State: none of its own; it works
on the objects under the accumulation prefix. Steps: list and read what the
accumulators stored, judge it as a whole (enough of it, no dominating class,
not too large a share of the training data), delete it, ask for a retraining.

* Hard: accumulators store and other runs fetch meanwhile; a deletion may fail in
  part; deletion precedes the trigger; the images of deleted records stay.
* Correct when: nothing is deleted that the gate has not accepted; what was
  accepted reaches the retraining it triggers (it does not, see
  [below](#where-code-and-documents-differ)).

**Training data** (the first half of the continuous-training flow:
`resolve_round_number`, `integrate_training_data`, `validate_images` in
`orchestration/tasks/data_tasks.py`, `_version_data` with
`data/versioning/dvc_manager.py`). State: the round counter in S3, the merged
directory with its train and val sides, Prefect's cached result of the image
validation, the `.dvc` file. It is written by whichever run comes along.

* Hard: the counter is read and written in two calls; every run removes and
  refills the same directory; objects vanish between their listing and their
  reading; a failed source is only warned about; annotations without an image or
  a class and records without an image are skipped silently; G1's verdict is
  cached by path.
* Correct when: rounds are distinct; a run trains on what it merged, misses
  nothing usable that was there and not deleted, covers every class; images G1 would
  refuse are not trained on.

### Labelling and monitoring

**Confidence router, uncertainty, sample selector**
(`active_learning/routing/confidence_router.py`, `plugins/cv/uncertainty.py`,
`plugins/cv/sample_selector.py`): pure functions from a prediction to its route, and
from a batch to a selection.

**Active-learning flow** (`orchestration/flows/active_learning_flow.py`): fetch the
predictions routed to human review from the logs of a lookback window, select the
most informative, import them as tasks into Label Studio. Hard: the import
is retried although it may have succeeded; nothing marks what was selected
before. Correct when: a run's selection is imported, and more than once only for a
reason that can be named.

**Labelling webhook** (`active_learning/labeling/webhook.py`): counts annotations and
triggers a retraining, debounced by a time kept in the worker's memory, which is
checked before an `await` and set after it. That time starts as 0.0 against a
monotonic clock, so in the first minute after its host has booted a worker debounces
its first trigger. Correct when: the threshold is missed then only.

**Monitoring flow and G5** (`orchestration/flows/monitoring_flow.py`,
`orchestration/tasks/runtime_gate.py`, `monitoring/evidently/drift_detector.py`):
drift detection, metrics, a drift gate, a report, then by severity nothing,
active learning and retraining, or rollback and retraining. Hard: four thresholds
in three places; some failures are counted and swallowed, others end the flow.
Correct when: a drift the gate refuses is answered.

### How the parts interact

```
 api workers --images, records--> S3 --> accumulation flow --> continuous training
     |  ^                                   labels --webhook-------^   ^
     |  +--- reload (HTTP, Redis) ---+                                 |
     +--predictions--> S3 --> monitoring flow --HIGH: rollback, retrain+
                                    |
 continuous training --versions, @challenger, @champion--> MLflow <----+
        |  promotes, then runs as a subflow
        v
 deployment flow --docker--> api-canary, nginx;  --HTTP reload--> api
```

## Modules

| Module | Models |
| --- | --- |
| `QualityGates` | the decisions of G2, G3 and G4 as operators |
| `GatedPromotion` | abstract: the title of champion passes to measured, better candidates only |
| `ContinuousTraining` | flow runs and the rollback over one registry |
| `CanaryDeployment` | deployment flows over the canary, the champion API and nginx |
| `SampleDelivery` | abstract: a record is pending, delivered or lost with its process |
| `BufferedUpload` | the buffer protocol of the prediction logger and the accumulator |
| `AutoAccumulator` | extends it with the images of the accumulator; where no sample carries one it is the logger |
| `ReloadSync` | the workers of two containers and their reload channel |
| `DataAccumulation` | the accumulation flow over the bucket of pseudo-labels |
| `TrainingData` | extends it with the runs that merge the bucket and the annotations, judge, version and train |
| `LabellingLoop` | prediction logs, active-learning runs, Label Studio, the webhook |
| `MonitoringFlow` | extends it with the monitoring flow and what its answer sets off |
| `MC*` | instances for TLC: values, fault sets, symmetry |
| `*_proofs` | theorems and proofs |

Conventions shared by the modules. A step is one call whose effect another
process can see, or one critical section. A call that may fail is listed in
`Calls`; `FaultyCalls` says which of them may fail in an instance and `MaxFaults`
how often. A fault means that the call has failed for good, after whatever
retries its task has; where the caller cannot know whether the call took
effect, both outcomes are possible. What the code does about the failure
(swallow, retry from the start, raise) is part of the same action. Retries are
explicit where a retry behaves differently from the first attempt, as it does in
`promote_to_champion`.

### ContinuousTraining

| State | Code |
| --- | --- |
| `registry` | registered versions and the run behind each (`mv.run_id`) |
| `metrics` | `best_val_accuracy` and the loss gap of each MLflow run |
| `challenger`, `champion` | the two aliases |
| `pc[r]`, `own[r]` | the flow run's position; `model_info.registered_model_version` |
| `target[r]`, `attempt[r]` | inside `promote_to_champion`: the version it read; retries used |
| `rollback[m]` | the champion that `_trigger_rollback` of monitoring run `m` has read, while it runs |
| `overtaken` | history: the monitoring runs during whose rollback that of another ended |

What happens before training is `PrepareData`, one step with the outcomes
`TrainingData` has: nothing to train on, refused, failed, or trained.

`RegisterModel` and `SetChallenger` are the end of `train()`, each swallowing its
failure. `CheckTrainingQuality` and `CheckChampionGate` use the metrics of the run;
the latter passes on any registry error, as the code does.
`ReadChallenger`/`SetChampion` are the two registry calls of
`promote_to_champion`; `RetryPromotion` starts it over. `Overlap = FALSE` is an
operator who never lets two runs be in flight together; the code allows both.
`RollbackRead`, `RollbackSet` and `RollbackFails` are `_trigger_rollback`, of several
monitoring runs at a time, each as often as it likes.

`GatedPromotion` is what the gates promise of the title, with no aliases or runs. `ContinuousTraining`
implements it with `holder <- registry[champion]`.

### CanaryDeployment

| State | Code |
| --- | --- |
| `upstream`, `nginx` | `/etc/nginx/conf.d/upstream.conf` in the container; what the process runs with |
| `canaryUp`, `canaryModel` | the `api-canary` container; 0 when it serves without a model |
| `apiModel` | the model of the `api` container |
| `promoted[d]` | the version whose promotion called deployment `d` |
| `checks[d]`, `passed[d]` | the loop counter and verdict of `_run_canary_monitoring` |
| `mpc[m]`, `rollback[m]` | a rollback of the monitoring flow: its position, and the champion it has read |
| `over[d]`, `lost[d]` | history: the measurements of `d` above the ceiling, and those of them whose gate raised |
| `overlapped` | history: a model was registered or promoted while a deployment was in flight |

`CopyUpstream` and `ReloadNginx` are the two commands of `update_nginx_weights`,
used for the split and for the restore. nginx refuses a configuration with a host
that does not resolve (`NginxAccepts`). Prometheus may answer with any value or none,
except that a canary without a model answers every request with a 503.
Latencies and rates are compared by cross-multiplication. `Check` is an attempt of
`check_canary_gate`: `Judge` measures and returns its verdict, `LoseVerdict` measures and
raises, after which the task's one retry measures again (`recheck`).
`RollbackRead`, `RollbackSet` and `RollbackReload` are the rollback of the monitoring
flow, which moves the same alias and posts the same reload; a monitoring run makes one.

Three constants stand for facts of the repository that hide everything behind
them. `TemplatePresent` is FALSE in the repository as it is: the canary template is not
where the task looks for it (`deployment_tasks.py:20` takes `parents[3]`, the package
directory), so every deployment ends at its split. It is TRUE in both runs, to check the
flow behind it. `EmptyBodyAnswers` is `{"refused"}` in the repository:
`POST /model/reload` answers 422 to the empty request the flow sends. The violation run
`canary_reload_body` has that value; `canary_traffic` lets each request be accepted or
refused, which covers the repository and an API that takes the request, and the
proofs hold for either. `ServingVersion` is `SERVING_MODEL_VERSION` of the `api` container, whose
default is `latest`; the runs use `@champion`.

### BufferedUpload and AutoAccumulator

`buffer` is `_buffer`, `batch[t]` the local copy of a flushing thread, `stored[s]`
counts the objects that hold a record. `TakeBatch`, `PutBatch` and `Requeue` are the
three parts of `flush()`. `Shutdown`, `Exit` are the end of the lifespan, and
`Crash` a killed worker. In `AutoAccumulator`, `UploadImage` is `add()` up to its lock
and `AddSample` the rest; `AddWithoutImage` is a sample without `image_bytes`, and
also exactly the logger's `log()`, so the one instance checks both buffers. `Cleanup` is
what the accumulation flow does to the bucket here: `deleted[s]` counts the copies of a record that are
gone, `InBucket` asks whether one is left, and images are never deleted. It may take any copy at
any time, where `DataAccumulation` says which. `SampleDelivery` is the promise: refinement maps a record to
*delivered* as soon as one object holds it, to *pending* while it is in memory.

### ReloadSync

| State | Code |
| --- | --- |
| `state[w]` | `app.state.model_state` of a worker: the address it was loaded from, and the version that was |
| `handler[w]`, `loaded[w]` | where `model_reload` is; its `new_state` |
| `listener[w]`, `inbox[w]` | the subscriber thread; the messages of its subscription |
| `fetched[w]` | `new_state` in `_handle_remote_reload` |
| `last`, `crossed`, `missed` | history, for the property only |

`RequestReload`, `AssignReload` and `PublishReload` are the three parts of
`model_reload` between which the listener thread may run; `Receive` and
`AssignRemote` are the listener's. A message carries an address, which each
receiver resolves for itself. `missed` holds the workers that the last message
was not delivered to (no subscription yet, a dead listener, a failed publication),
and those that lost it (a failed load, a new process). The instance has two
workers in `api` and one in `api-canary` with the pid of one of them.

In `CanaryDeployment` the workers of the `api` container are one server with one
model: `ReloadsConverge` is what makes that abstraction fair.

### DataAccumulation and TrainingData

| State | Code |
| --- | --- |
| `bucket` | the objects under `accumulated/`; `stored` is their history |
| `step[a]`, `fetched[a]` | where a run of the accumulation flow is; `samples` and their `_s3_key` |
| `accepted[a]` | history: what its quality gate passed |
| `requests` | runs of the continuous-training deployment Prefect has yet to start |
| `labels` | the completed annotations |
| `counter` | `rounds/round_state.json` |
| `dir`, `tracked` | `data/merged` with its two sides; what its `.dvc` file stands for |
| `verdict` | the cached result of `validate_images` |
| `run[r]` | position and locals of a flow run, with the history its properties need |

A record is an object of its own with at most one image. The constant `Unusable` holds the
records without an `image_ref` and the annotations without an image or a class, which
`CollectHuman` and `ReadPseudo` skip silently. In the repository every annotation of a task
that was made from the prediction logs is one. `ListSamples` and `ReadSamples` are the
listing and the reading of `fetch_accumulated_samples`, between which another run
may delete; the task then starts over. `Cleanup` deletes what was fetched, all of it, some of it
with a warning, or some of it and raises. `ReadRound` and `WriteRound` are the two
calls of `resolve_round_number`, for runs without an explicit round. `CleanDir`,
`CollectHuman`, `ListPseudo`, `ReadPseudo` and `WriteDir` are
`integrate_training_data`; `BothSourcesFailed`, `NothingCollected` and
`WriteDirFails` are its other ends, with its one retry in `Retrying`. The seeded
shuffle is any order, so `Splits` holds every split the code may reach. `Mixed` is a
directory that a failed attempt or two runs have left in no state worth telling
apart; a model may still be trained from it. `ExpireVerdict` is the end of the
cached hour. `Start` takes a request of the accumulation flow or, as the
webhook, the monitoring flow and operators do, none.

### LabellingLoop and MonitoringFlow

| State | Code |
| --- | --- |
| `logged` | the prediction logs of the lookback window |
| `al[a]` | an active-learning run: position, what it fetched and selected |
| `tasks[p]`, `annotated` | the tasks of a prediction in Label Studio; how many tasks are annotated |
| `hook[e]` | a call of the webhook, and the worker whose event loop it is suspended in |
| `debounced` | workers within 60 seconds of `_last_trigger_time` |
| `booting` | workers in the first 60 seconds of their host's monotonic clock, any of them at the start |
| `retrainings`, `counted` | what Prefect was asked for; `orchestration_trigger_failures_total` by type |
| `flow[f]` | a monitoring flow: position, drift score, responses as history |

`CheckCount` is `_maybe_trigger_retraining` up to its `await`, atomic as the event loop
makes it, except that the count is taken by a blocking call; `RequestRetraining` is the rest. A call
reaches any worker. One that a booting worker passes over although enough is annotated ends as "early",
which is history: the worker itself sees a debounce like any other. `Selections` is every result of `UncertaintyDiversitySelector.select` over
the orders the records may come in. `DetectDrift` lets Evidently find any subset of the
shared columns drifted, and `Share`, `Detected`, `GatePasses` and `Severity` are what the code
makes of it. `ReadVersions`, `SetAlias` and `ReloadAfterRollback` are `_trigger_rollback`
with its failures; which version the title goes to is `ContinuousTraining`'s.

## Runs

Passing runs:

| Run | Shows | Bounds |
| --- | --- | --- |
| `ct_gated` | `ChampionMeetsFloor`, `ChampionImproves`, `ImplementsGatedPromotion` with runs one at a time, retried promotions, crashes | 3 runs, 3 accuracies × 2 gaps on both sides of the thresholds, margin 5, 2 retries, 3 faults |
| `ct_overlap` | `TypeOK`, `RegisteredIsMeasured`, `PromotionsMeetFloor`, `RollbackNeverAdvances`, `EveryRunEnds` with overlapping runs, overlapping rollbacks whose reads and writes enclose promotions and each other, and every fault | 2 runs, 2 monitoring runs, 3 rollbacks, 2 faults |
| `canary_traffic` | `SplitOnlyToRunningCanary`, `DecidedRestoresTraffic`, `PassedOverCeilingOnlyUnjudged`, `JudgesPromotedModel`, `ServesPromoted`, `EveryDeploymentEnds`, `TypeOK` with deployments one at a time or overlapping, a retried gate, every fault, restarts, a rollback, and a reload that is accepted or refused | 2 deployments, 1 monitoring run, 3 versions, 2 checks, 1 fault, 1 restart or rollback |
| `accumulator_images` | `ImplementsDelivery`, `BatchesAreReleased`, `ReferencesResolve`, `ImagesBelongToRecords`, `FullBufferIsFlushed`, `DuplicatesNeedLostAnswers`, `AccumulatorTypeOK`, with the cleanup of stored records | 2 threads, 3 samples, threshold 2, 3 faults, 3 processes |
| `reload_convergence` | `ReloadsConverge`, `ReloadsSettle`, `TypeOK` with crossing requests, lost messages, replaced workers | 3 workers, 2 addresses, 2 versions, 2 reloads, 1 alias move, 1 fault |
| `training_data` | `OnlyAcceptedIsDeleted`, `RoundsAreDistinct`, `TrainsOnOwnMerge`, `NothingAvailableIsMissed`, `UnhealthyNeedsStaleVerdict`, `SplitCoversClasses`, `TypeOK` with two training runs, an accumulation run, accumulators and annotators | 3 records, two stored from the start and one of these without an image, 1 annotation, 2 classes, 1 accumulation, 1 fault, runs overlap once no fault is left |
| `feedback_loop` | `TasksAreAccountedFor`, `ThresholdIsNeverMissed`, `FailedGateIsAnswered`, `TypeOK` | 4 predictions (3 for review, 2 may be selected), 2 active-learning runs, 3 webhook calls, 2 workers, either of them just booted or not, 1 monitoring flow, 1 fault |

Why the bounds suffice for what they are used for. Three runs let a champion be
replaced twice, or a rejected version lie between two good ones. A second
retry happens after a first one that took effect. Three rollbacks of two monitoring
runs let one be overtaken by another that goes back twice, and begin again.
Two deployments are what it takes for one to find what another left or to interfere with it; two checks
separate a loop that goes on from its last iteration; one fault breaks a
deployment, or makes its gate forget a measurement, and the next deployment meets what that left. Three records and a threshold of two make
two batches, with a record added during an upload and a re-queued batch that
exceeds the threshold. Two usable records let one be stored while the other is fetched,
judged or deleted, and one vanish from a listing; with the annotation, a class has
one image or two, one of them unhealthy, on the side of the split that is judged or
on the other. The record without an image is counted by the accumulation and skipped by the merge; annotations without
one are left to the proof, which holds for every choice of `Unusable`. Behaviours with a fault and those with overlapping runs are both explored,
not both together. Two of three candidates leave one
out, and two active-learning runs select the same ones. Two workers and a threshold of two let calls be counted in different
workers, overlap at the `await`, and fall into the other's window. The values of rates and ratios lie below, at and above
each threshold. Two reloads can cross, and a third would only repeat it; one alias
move separates two loads of one address. The proofs cover all other values for the properties they state.

Fairness. `FairSpec` gives weak fairness to the steps of a flow run that has
started, of a deployment, and of both threads of a worker that reloads;
`FairAccumulatorSpec` to the steps of a thread that flushes. Every one of these is
enabled until taken, and the code justifies it: every call returns or
raises, the polling loop has a deadline and the retries are counted. Starting a
run, rollbacks, crashes, restarts and additions are never forced. Crashes are
bounded by `MaxFaults` and end the run, so they do not hide a run that hangs.
`training_data` and `feedback_loop` check safety only and assume no fairness.

Deadlock checking is off: every run of these models may end with nothing left to do.

Each property comes with a mutant of the code it is about, an operator in the
same module marked "Mutant": put in place of the definition it mutates, it makes
the run fail on that property.

## Proofs

Every safety property and every action property that a passing run checks is also
a theorem, for all values of the constants, and so are the two refinements. Each
theorem is of the form `Spec => []P` or `Spec => P`; where its statement has
hypotheses, they are named here, and TLC shows what breaks without them.

`ContinuousTraining_proofs`, for any number of runs:

* `TypeCorrect`: `TypeOK`; the aliases name registered versions.
* `RegisteredMeasured`: `RegisteredIsMeasured`, with any overlap and any faults. The
  invariant `MeasuredInv` adds that a run that is past training has its metrics.
* `OwnPromotionsGated`: `PromotionsMeetFloor`, with any overlap and any faults.
  `GateInv` says that from G3 on a run's own metrics meet the floor.
* `ChampionFloor`: `ChampionMeetsFloor`, assuming `OneAtATime`: `~Overlap`, no
  failing `log_model` or alias calls and no rollbacks. `FloorInv` carries the argument: at
  most one run is in flight; from its alias call on, `@challenger` is the version it
  registered; past G2 its metrics meet the floor; and the version
  it is about to make champion is therefore its own. Without the first part the second is not inductive,
  and `ct_overlap_promotion` is the counterexample.
* `PromotionsImprove`: `ChampionImproves`, and `PipelineImplementsGates`:
  `ImplementsGatedPromotion`, assuming `EveryGateAnswers`: `OneAtATime`, and no registry
  error in G3, whose effect is `ct_g3_error`. `BeatInv` adds that past G3 a run beats
  the champion or, after a promotion whose answer was lost, is the champion
  already; so a retry is a stutter of `GatedPromotion`, and every other step that moves the
  title is its `Promote`.
* `RollbackGoesBack`: `RollbackNeverAdvances`, for training runs that do not overlap or
  are at most two, any number of monitoring runs whose rollbacks may overlap, any number
  of rollbacks and any faults. It says nothing of a rollback during which another one
  ended (`overtaken`), and there it is false: one reads version 3, others go back to 2 and to 1,
  and the write of the first moves the champion forward to 2. For runs one at a time, `ForwardInv` says
  that `@challenger` is never older than a champion that was promoted, that a run about to
  promote has read the present one, and that the target of a pending rollback that no other
  overtook stays at or below the champion. For two runs, `FewInv` bounds the versions by the runs
  past their registration and keeps version 1 from being promoted: the target is 2 at
  most, and the champion 2 at least. With three that overlap, one may promote the older
  version it has read.

`CanaryDeployment_proofs`, for any number of deployments, monitoring runs, checks, failures,
crashes, restarts and rollbacks, with or without the template, and whatever the API answers to an empty reload:

* `TypeCorrect`: `TypeOK`, with the loop counter inside its bound.
* `TrafficSafe`: `SplitOnlyToRunningCanary`, and `DecisionRestores`:
  `DecidedRestoresTraffic`. Both are about the time before a first overlap (`~overlapped`).
  `RestoreInv` adds: at most one deployment is in flight; while it is between the
  health check and the restore the canary is running; past `CopyUpstream` of the
  restore the file is `default`, past `ReloadNginx` so is nginx. A failed
  deployment leaves the canary running, which is what makes its leftovers safe.
* `RolloutWithinCeiling`: `PassedOverCeilingOnlyUnjudged`, however deployments overlap.
  `CeilingInv` says that until a deployment leaves its checks all its measurements above
  the ceiling were of gates that raised, and that a verdict is given only on leaving them.
  That a canary passes with no such measurement at all is false: its retry forgets it.
* `ServedWasPromoted`: `ServesPromoted`, assuming `ServingVersion = "@champion"`.
  `PromotedInv` adds that `@champion` names the seed or a promoted version until a
  rollback begins, and that afterwards neither it nor what a rollback has read is newer than all that were promoted.
* `PromotedIsJudged`: `JudgesPromotedModel`, with no hypothesis. `JudgeInv` says that
  until a call fails or runs overlap the deployment in flight promotes the
  challenger, its canary has loaded that, and a canary outlives its deployment only
  where it passed and the API refused the reload (`LeftCanary`).

`AutoAccumulator_proofs`, for any number of samples, threads, processes and faults, and
with no hypothesis; with no images it is about the prediction logger. The buffer
and the batches are sequences, so `Elements`, `Distinct` and `Occurrences` lemmas say
what appending, taking and re-queueing do to the places a record is in.

* `TypeCorrect`: `AccumulatorTypeOK`.
* `StoredReferencesResolve`: `ReferencesResolve`, from `ReferenceInv`: a record names only
  images that were uploaded.
* `NoImageIsOrphaned`: `ImagesBelongToRecords`, inductive with the type, whose part on
  `deleted` says that no more copies of a record are deleted than were stored. An image
  whose record the cleanup has deleted is one of its cases, not a failure.
* `FullBufferHasFlusher`: `FullBufferIsFlushed`. `FlushInv` adds that only a failed
  upload puts records back.
* `DuplicatesAreLostAnswers`: `DuplicatesNeedLostAnswers`. `HeldOnceInv` says that
  a record is in one place of the memory at most, `CopiesInv` that one in memory has been
  stored only by uploads whose answers were lost.
* `BufferImplementsDelivery`: `ImplementsDelivery`, step by step: an addition is `Accept`,
  an upload delivers the records of its batch, the end of a process loses what it
  held, and taking and re-queueing are stutters.

`ReloadSync_proofs`, for any number of workers and containers, shared process
ids, lost messages, failed loads and replaced workers, and with no hypothesis:

* `TypeCorrect`: `TypeOK`.
* `Convergence`: `ReloadsConverge`. `CarriedInv` says that, unless two addresses
  crossed, all that is being loaded, published or carried by the channel is of the
  last address; `AgreeInv` that there is one version which every worker the last reload was
  sent to serves, or has a message or a load still to come for.

`TrainingData_proofs` (for any number of records, annotations and runs of either
flow, overlapping or not, and any choice of faults):

* `TypeCorrect`: `TypeOK`. Its bound on the counter needs `CounterInv`: a round is one
  more than the counter it read, so the counter is at most the runs that have
  written theirs and the writes whose answer was lost.
* `AcceptedDeleted`: `OnlyAcceptedIsDeleted`. `AccumulationInv` adds
  that a run about to delete has accepted exactly what it fetched.
* `DistinctRounds`: `RoundsAreDistinct`. `RoundInv` adds, until the
  counter is raced for: at most one run is about to write it, what it will write is
  the next number, and the runs that have written theirs have numbers up to the
  counter's. The first part is what makes the rest inductive, and what a race breaks.
* `OwnMergeTrained` and `UnhealthyUnderStaleVerdict`:
  `TrainsOnOwnMerge` and `UnhealthyNeedsStaleVerdict`. `DirectoryInv` says what
  the directory holds for a run no other has disturbed: nothing until it writes, then
  a split of its merge, healthy or judged by an old verdict. `LeavesAlone` is the
  lemma that carries it past the steps of the other runs: whoever changes the
  directory disturbs every run that is working in it.
* `AvailableIsFound`: `NothingAvailableIsMissed`. `AvailabilityInv`
  follows what was available at the start through labels, merge, listing and
  deletion; what is in `Unusable` may be left out, and nothing else; `Grows` says that annotations stay and a deleted record does not come back.
* `ClassesCovered`: `SplitCoversClasses`, from `DirectoryInv` and the
  bounds of `split_idx` (`TrainCountBounds`), for every percentage and class size.

`MonitoringFlow_proofs` (any number of predictions, runs, calls, workers, flows, faults):

* `TypeCorrect`: `TypeOK`. The tasks of a prediction are bounded by `TaskInv`, the annotations
  by `HookInv` (a call is made once), and a drift score is a percentage (`ShareIsPercent`).
* `ThresholdKept`: `ThresholdIsNeverMissed`, but for a call passed over in a host's first
  minute. `ThresholdInv` adds that any other
  worker debounces only after a request that was accepted, and that while nothing has
  failed, enough annotations mean a request or a handler that has yet to count or ask.
* `TasksAccounted`: `TasksAreAccountedFor`, inductive with the shape of
  a run's record, whatever the selector returns.
* `DiversityNeverMatters`: `SelectsMostUncertain`, which says that what a run imports are
  the most uncertain of what it fetched, assuming `DiversityWeight < 5`, a weight
  below a half (the code's is 0.3). No run checks it: it is the reason why `selector_diversity`
  finds what it does, for every pool and budget. The greedy selector is a recursive computation: `GrownUnfolds` shows that
  the recursion defines a function, and `GrownAreChosen` that after `n` steps the `n` chosen
  are the most uncertain, both by induction on `n`. The library states induction for an
  operator, which no installed prover can instantiate; `Induction` states it for a set of
  numbers and derives it from the well-foundedness of `<`. `BestIsMostUncertain` is the
  arithmetic: the nearest chosen is the least uncertain of them, so the
  score grows by 10 less twice the weight with each point of uncertainty. At a half all
  scores tie, and TLC finds another selection.
* `FailedGateAnswered`: `FailedGateIsAnswered`, assuming
  `NoScoreBetween`: no share of drifted columns is refused by the gate and found low by
  G5. `AnswerInv` orders the two responses. With the repository's thresholds, 0.3 for
  the gate and 0.5 for the detector, the assumption holds only because there are at most two
  columns; a third, and a drift of one in three is refused and answered by nothing.

The constants are arbitrary within the named assumptions (`ParameterAssumption`,
`NoMetricsAssumption`, `AccumulationAssumption`, `TrainingDataAssumption`,
`LabellingAssumption`, `MonitoringAssumption`, `BufferAssumption`, `WorkerAssumption`,
`AddressAssumption`, `BoundAssumption`), which TLC evaluates in every run. Three further assumptions bound the faults
or the runs of an instance so that a task's counted retries always suffice and need
no counter (`FetchRetriesSuffice`, `RoundRetriesSuffice`, `TaskRetriesSuffice`); no
proof uses them.

Only model-checked: the liveness properties `EveryRunEnds`, `EveryDeploymentEnds`,
`BatchesAreReleased` and `ReloadsSettle`, which rest on fairness, and what the five
runs below refute.

## Where code and documents differ

Five runs end in a counterexample on purpose, each against a sentence of
the repository that `PROJECT.json` quotes.

* `ct_overlap_promotion`: two runs in flight; the run whose gates passed promotes the
  version the other registered meanwhile, whose gates failed.
* `ct_g3_error`: an MLflow error in G3 passes a challenger that does not beat the champion.
* `canary_reload_body`: with nothing failing, a canary that passed G4 is not rolled out.
* `accumulation_order`: the retraining an accumulation triggers does not find what it
  accepted, which is deleted before the request.
* `selector_diversity`: of a pool of five, the two that the selector chooses are very similar,
  although three that are not like them are left out.

Others follow from the models and the code around them and have no run of their own.

*Promotion and deployment.* A rollback "to previous champion"
(`orchestration/tasks/runtime_gate.py:78`) installs the next lower version number, which may be a
version that failed its gates and never was champion. While drift stays HIGH, each monitoring run walks back
one version more, and each time the reload that follows is refused with 422 and
counted as a failed rollback. A rollback may even move the title forward: with three
overlapping training runs one may promote, between its read and its write, an older version
than the one it read, and with overlapping monitoring runs others may have gone back
further in between, from 3 to 2 to 1, before it writes 2
(`RollbackNeverAdvances` without its first and its second condition). A version that G2
rejects is registered all the same, and is `@challenger`; with
`SERVING_MODEL_VERSION=latest` a restarted API serves it (`ServesPromoted` fails
when `ServingVersion = "latest"`). Before anything `canary_reload_body` shows, the
canary template is missing where the task looks for it, so a deployment of the
repository as it is ends at its split. After a rollback by G4, `@champion` still
names the rejected version, which the next restart of an API on `@champion` serves.
The API is moved by the monitoring flow's rollback as well, to a version that may never have been
promoted (`ServesPromoted` without its condition on monitoring runs). G4 may pass a canary it has
measured above the ceiling: where the gate's artifact cannot be written after the measurement, the task's retry
measures again (`PassedOverCeilingOnlyUnjudged` with `over[d] = 0`). `JudgesPromotedModel` fails
without its exceptions: a canary that a failed deployment left running is judged in place of
the next one. As the reload is refused in the repository, every deployment that passes G4 is such a one,
with no call failing.

*Reloads.* Two reloads of different addresses that cross leave the workers of a
container on different models, and a reload of `api` also moves `api-canary`, which
listens on the same channel, to the champion (`ReloadsConverge` without
`~crossed`, or without its restriction to a container). The run id logged with a
prediction comes from a second lookup of the alias and may be another version's
(`serving/api/dependencies.py:96`).

*Buffers.* `cleanup_accumulated` deletes the records an accumulation has accepted and leaves their images in
the bucket for good, which nothing refers to any more (`active_learning_tasks.py:371`).

*Training data.* As served, `existing_data_count` is 0, so the pseudo-label share is
always 1 and the accumulation gate never passes; `training_data` sets it to 7 to
check what lies behind. Annotations without an image or a class and records
without an image are left out of the merge without a warning (`continuous_training_tasks.py:383`,
`:415`). An object deleted during an integration's reading ends the
pseudo-label source with a warning. One source failing while the other is empty ends as "no
training data", although `continuous_training_tasks.py:427` says an outage is not
to be treated so. G1's verdict is cached by path for an hour, refusals too, and
judges `train/` only. `continuous_training_tasks.py:462` says "Ensure at least 1
val sample", but a class of one image leaves its validation directory empty, which fails the
training. Nothing tags the MLflow run with the version `_version_data` returns.

*Labelling.* Prediction logs carry no image, so the tasks made from them have no
`image` that `bridge.py:41` asks for, and `integrate_training_data` skips their
annotations. The selector's diversity never changes what is selected at a weight below a half
(`DiversityNeverMatters`). A worker drops the first trigger if it comes within a minute of its host's boot
(`webhook.py:24`), and nothing repeats it before the next annotation. The debounce is kept
per worker, so one burst may trigger once per worker, and twice in one worker whose
calls overlap at the `await`; annotations inside the window trigger nothing until
the next one after it. A failed report upload ends the monitoring flow before G5 responds.

## What is left out

* `ContinuousTraining` keeps data preparation as one action with three outcomes,
  whose inside is `TrainingData`; the two meet in the outcome only, as no step of
  one reads the state of the other.
* Runs with an explicit round number, which neither read nor write the counter.
* Label validation, which continuous training does not ask for; DVC's pull, checkout
  and diff, which no flow calls; the entropies and margins, which are given per prediction; the webhook's signature and
  registration; the administration endpoints, which ask for runs that `Start` and its like allow anyway; the
  logged run id, which nothing reads.
* Pseudo-labels of one object are one record with one image.
* MLflow, S3, Redis, docker, nginx and Prometheus are modelled from how the code
  uses them: atomic calls that succeed, fail, or succeed unnoticed.
* Time is not modelled: a timeout is a possible outcome of the call that has it.
* Tensors, training, drift statistics, metrics counters, logging, settings, the
  demo scripts and the dashboards have no protocol of their own.

## Plan

In this order; the first eight exist.

1. `ContinuousTraining` with `GatedPromotion`, its proofs. *Done.*
2. `CanaryDeployment`, its proofs. *Done.*
3. `BufferedUpload`, `AutoAccumulator` with `SampleDelivery`. *Done.*
4. `ReloadSync`. *Done.*
5. `DataAccumulation`, over the bucket the accumulators fill. *Done*, with its proof.
6. `TrainingData`: the round counter, the shared directory, the cached verdict, the
   split, DVC. *Done*, with its proofs.
7. `LabellingLoop`: active-learning runs, tasks, the webhook. *Done*, with its proofs.
8. `MonitoringFlow`: the drift gate, G5 and its answers. *Done*, with its proof.
9. Pure operators. Routing, selection, the drift share and the split sizes are in the modules
   that use them; open: the order of entropy and margin.
10. Proofs: every safety and action property of the passing runs and both
    refinements are proved. *Done.* Open: the liveness properties, which stay with TLC,
    and an abstract specification of the training-data path, of which
    `TrainsOnOwnMerge` and `NothingAvailableIsMissed` are the two halves.
