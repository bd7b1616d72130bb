---------------------------- MODULE LabellingLoop ----------------------------
(***************************************************************************)
(* From uncertain predictions to a retraining: the router's decision is    *)
(* logged with the prediction, active-learning runs collect those for      *)
(* human review, select some and import them into Label Studio, annotators *)
(* work through the tasks, and the webhook of the workers of the api asks  *)
(* for a retraining once enough tasks are annotated.                       *)
(***************************************************************************)
EXTENDS Integers, FiniteSets, FiniteSetsExt, Functions

CONSTANTS
    Predictions,
    Confidence,         \* prediction -> percent
    Uncertainty,        \* prediction -> percent
    AutoThreshold,      \* of the router, in percent
    ReviewThreshold,
    MaxSamples,
    DiversityWeight,    \* of the selector, in tenths
    ALRuns,
    Events,             \* the webhook's calls
    Workers,            \* of the api
    MinAnnotations,     \* min_annotation_count
    FaultyCalls,        \* what may go wrong: a subset of Calls
    MaxFaults           \* bound: how often it does

(* Of this module: fetch, an S3 error or an object gone; import, the       *)
(* import into Label Studio; deliver, a webhook call lost; count, the      *)
(* count of annotations; request, a PrefectException; settings, a          *)
(* ValidationError.  The rest are those of MonitoringFlow.                 *)
Calls == {"fetch", "import", "deliver", "count", "request", "settings",
          "metrics", "report", "registry"}

ASSUME LabellingAssumption ==
    /\ IsFiniteSet(ALRuns) /\ IsFiniteSet(Events)
    /\ {Confidence, Uncertainty} \subseteq [Predictions -> 0..100]
    /\ {MaxSamples, MinAnnotations, MaxFaults} \subseteq Nat
    /\ MaxSamples > 0
    /\ DiversityWeight \in 0..10
    /\ FaultyCalls \subseteq Calls

(* So the two retries of every task suffice.  No theorem uses this bound.  *)
ASSUME TaskRetriesSuffice == MaxFaults <= 2

VARIABLES
    logged,      \* the predictions in the logs of the lookback window
    al,          \* run -> its pc, and what it has fetched and selected
    tasks,       \* prediction -> its tasks in Label Studio
    annotated,   \* how many tasks have an annotation
    hook,        \* event -> where its handler is, and while it awaits an
                 \* answer, in which worker
    booting,     \* workers whose host has been up for less than 60 seconds
    debounced,   \* workers within 60 seconds of their last trigger
    retrainings, \* for what Prefect has been asked for a retraining
    counted,     \* the trigger types with a failure counted
    lost,        \* history: imports whose answer was lost
    faults

labellingVars == <<logged, al, tasks, annotated, hook, booting, debounced,
                   retrainings, counted, lost, faults>>

-----------------------------------------------------------------------------
Fault(call) ==
    /\ call \in FaultyCalls
    /\ faults < MaxFaults
    /\ faults' = faults + 1

NoFault == UNCHANGED faults

Count(type) == counted' = counted \cup {type}

(* ConfidenceRouter.route.                                                 *)
Route(p) ==
    IF Confidence[p] >= AutoThreshold THEN "auto_accumulate"
    ELSE IF Uncertainty[p] >= ReviewThreshold THEN "human_review"
    ELSE "discard"

Distance(p, q) == Max({Uncertainty[p] - Uncertainty[q], Uncertainty[q] - Uncertainty[p]})

(* A candidate's score once some are chosen: its uncertainty above the     *)
(* least of all, and its distance to the nearest chosen.                   *)
Score(p, chosen, least) ==
    (10 - DiversityWeight) * (Uncertainty[p] - least)
       + DiversityWeight * Min({Distance(p, q) : q \in chosen})

MostUncertain(S) == {p \in S : \A q \in S : Uncertainty[p] >= Uncertainty[q]}

BestNext(S, chosen, least) ==
    {p \in S : \A q \in S : Score(p, chosen, least) >= Score(q, chosen, least)}

(* What UncertaintyDiversitySelector may choose from S, whatever the order *)
(* the records come in: all if they fit, else the most uncertain and then  *)
(* the best score, one by one.                                             *)
Selections(S) ==
    LET least == Min({Uncertainty[p] : p \in S})
        grown[k \in 1..MaxSamples] ==
           IF k = 1 THEN {{p} : p \in MostUncertain(S)}
           ELSE UNION {{chosen \cup {p} : p \in BestNext(S \ chosen, chosen, least)} :
                          chosen \in grown[k - 1]}
    IN  IF Cardinality(S) <= MaxSamples THEN {S} ELSE grown[MaxSamples]

-----------------------------------------------------------------------------
LabellingInit ==
    /\ logged = {}
    /\ al = [a \in ALRuns |-> [pc |-> "idle", fetched |-> {}, selected |-> {}]]
    /\ tasks = [p \in Predictions |-> 0]
    /\ annotated = 0
    /\ hook = [e \in Events |-> [pc |-> "idle", worker |-> {}]]
    /\ booting \in SUBSET Workers
    /\ debounced = {}
    /\ retrainings = {}
    /\ counted = {}
    /\ lost = 0
    /\ faults = 0

(* A prediction is served, routed and logged.                              *)
LogPrediction(p) ==
    /\ p \notin logged
    /\ logged' = logged \cup {p}
    /\ UNCHANGED <<al, tasks, annotated, hook, booting, debounced, retrainings,
                   counted, lost, faults>>

(* By G5's request, on schedule or by hand.                                *)
StartAL(a) ==
    /\ al[a].pc = "idle"
    /\ al' = [al EXCEPT ![a].pc = "fetch"]
    /\ UNCHANGED <<logged, tasks, annotated, hook, booting, debounced,
                   retrainings, counted, lost, faults>>

(* fetch_uncertain_predictions: what is for review in the logs of the      *)
(* lookback window; nothing ends the run.                                  *)
FetchUncertain(a) ==
    LET uncertain == {p \in logged : Route(p) = "human_review"}
    IN  /\ al[a].pc = "fetch"
        /\ \/ /\ al' = [al EXCEPT ![a].fetched = uncertain,
                                  ![a].pc = IF uncertain = {} THEN "done" ELSE "select"]
              /\ NoFault
           \/ Fault("fetch") /\ UNCHANGED al
        /\ UNCHANGED <<logged, tasks, annotated, hook, booting, debounced,
                       retrainings, counted, lost>>

SelectSamples(a) ==
    /\ al[a].pc = "select"
    /\ \E S \in Selections(al[a].fetched) :
          al' = [al EXCEPT ![a].selected = S, ![a].pc = "import"]
    /\ UNCHANGED <<logged, tasks, annotated, hook, booting, debounced,
                   retrainings, counted, lost, faults>>

Imported(a) ==
    tasks' = [p \in Predictions |->
                 tasks[p] + (IF p \in al[a].selected THEN 1 ELSE 0)]

(* Mutant: a failed import is reported and the run goes on.                *)
CreateTasksOnce(a) ==
    /\ al[a].pc = "import"
    /\ al' = [al EXCEPT ![a].pc = "done", ![a].fetched = {}]
    /\ \/ Imported(a) /\ UNCHANGED <<lost, faults>>
       \/ Fault("import") /\ UNCHANGED <<tasks, lost>>
    /\ UNCHANGED <<logged, annotated, hook, booting, debounced, retrainings,
                   counted>>

(* create_labeling_tasks is tried again after any error, although Label    *)
(* Studio may have imported the tasks.                                     *)
CreateTasks(a) ==
    /\ al[a].pc = "import"
    /\ \/ /\ Imported(a)
          /\ al' = [al EXCEPT ![a].pc = "done", ![a].fetched = {}]
          /\ UNCHANGED <<lost, faults>>
       \/ /\ Fault("import")
          /\ \/ UNCHANGED <<tasks, lost>>
             \/ Imported(a) /\ lost' = lost + 1
          /\ UNCHANGED al
    /\ UNCHANGED <<logged, annotated, hook, booting, debounced, retrainings,
                   counted>>

TaskCount == MapThenSumSet(LAMBDA p : tasks[p], Predictions)

(* Label Studio calls the webhook with what has been annotated.            *)
Annotate(e) ==
    /\ hook[e].pc = "idle"
    /\ annotated < TaskCount
    /\ annotated' = annotated + 1
    /\ \/ hook' = [hook EXCEPT ![e].pc = "check"] /\ NoFault
       \/ hook' = [hook EXCEPT ![e].pc = "lost"] /\ Fault("deliver")
    /\ UNCHANGED <<logged, al, tasks, booting, debounced, retrainings, counted,
                   lost>>

(* Mutant: more than min_annotation_count.                                 *)
EnoughBeyond(n) == n > MinAnnotations

Enough(n) == n >= MinAnnotations

(* _maybe_trigger_retraining up to its await, in the worker the call       *)
(* reached; nothing else of the worker runs meanwhile.  The time of the    *)
(* last trigger begins at 0.0 and the clock with the host, so a worker is  *)
(* debounced in its host's first minute too; "early" is, as history, a     *)
(* call passed over for that although enough was annotated.                *)
CheckCount(e) ==
    LET Proceed(l, w) == hook' = [hook EXCEPT ![e] = [pc |-> l, worker |-> w]]
    IN  /\ hook[e].pc = "check"
        /\ \E w \in Workers :
              \/ /\ w \in booting
                 /\ Proceed(IF Enough(annotated) THEN "early" ELSE "done", {})
                 /\ UNCHANGED <<counted, faults>>
              \/ /\ w \in debounced
                 /\ Proceed("done", {})
                 /\ UNCHANGED <<counted, faults>>
              \/ /\ w \notin booting \cup debounced
                 /\ IF Enough(annotated) THEN Proceed("request", {w})
                                        ELSE Proceed("done", {})
                 /\ UNCHANGED <<counted, faults>>
              \/ /\ w \notin booting \cup debounced
                 /\ Fault("settings")
                 /\ Proceed("failed", {})
                 /\ UNCHANGED counted
              \/ /\ w \notin booting \cup debounced
                 /\ Fault("count")
                 /\ Proceed("done", {})
                 /\ Count("ct_on_labeling")
        /\ UNCHANGED <<logged, al, tasks, annotated, booting, debounced,
                       retrainings, lost>>

(* The await, and what follows its answer.  A failed request may have been *)
(* accepted.                                                               *)
RequestRetraining(e) ==
    /\ hook[e].pc = "request"
    /\ hook' = [hook EXCEPT ![e] = [pc |-> "done", worker |-> {}]]
    /\ \/ /\ retrainings' = retrainings \cup {"labelling"}
          /\ debounced' = debounced \cup hook[e].worker
          /\ UNCHANGED <<counted, faults>>
       \/ /\ retrainings' \in {retrainings, retrainings \cup {"labelling"}}
          /\ Count("ct_on_labeling")
          /\ Fault("request")
          /\ UNCHANGED debounced
    /\ UNCHANGED <<logged, al, tasks, annotated, booting, lost>>

DebounceEnds(w) ==
    /\ w \in booting \cup debounced
    /\ booting' = booting \ {w}
    /\ debounced' = debounced \ {w}
    /\ UNCHANGED <<logged, al, tasks, annotated, hook, retrainings, counted, lost,
                   faults>>

ALStep(a) == FetchUncertain(a) \/ SelectSamples(a) \/ CreateTasks(a)
HookStep(e) == CheckCount(e) \/ RequestRetraining(e)

LabellingNext ==
    \/ \E p \in Predictions : LogPrediction(p)
    \/ \E a \in ALRuns : StartAL(a) \/ ALStep(a)
    \/ \E e \in Events : Annotate(e) \/ HookStep(e)
    \/ \E w \in Workers : DebounceEnds(w)

-----------------------------------------------------------------------------
Selecting(p) == {a \in ALRuns : al[a].pc = "done" /\ p \in al[a].selected}

LabellingTypeOK ==
    /\ logged \subseteq Predictions
    /\ al \in [ALRuns -> [pc : {"idle", "fetch", "select", "import", "done"},
                          fetched : SUBSET logged, selected : SUBSET logged]]
    /\ tasks \in [Predictions -> 0..(Cardinality(ALRuns) + MaxFaults)]
    /\ annotated \in 0..Cardinality(Events)
    /\ hook \in [Events -> [pc : {"idle", "check", "request", "done", "early", "failed",
                                  "lost"},
                            worker : SUBSET Workers]]
    /\ booting \cup debounced \subseteq Workers
    /\ retrainings \subseteq {"labelling", "drift"}
    /\ counted \subseteq {"ct_on_labeling", "ct_on_drift", "rollback", "al_on_medium_drift"}
    /\ {lost, faults} \subseteq 0..MaxFaults

(* Uncertainties this close are those of "very similar" samples.           *)
VerySimilar(p, q) == Distance(p, q) <= 5

(* sample_selector.py:26-27: "This prevents clustering of very similar     *)
(* uncertain samples when the budget is small relative to the pool."  At a *)
(* budget of at most half the pool, a run that imports two very similar    *)
(* samples would have left out none that differs from all it has selected. *)
SimilarAreNotClustered ==
    \A a \in ALRuns :
       LET in == al[a].selected  out == al[a].fetched \ in
       IN  (/\ al[a].pc = "import"
            /\ 2 * MaxSamples <= Cardinality(al[a].fetched)
            /\ \E p, q \in in : p # q /\ VerySimilar(p, q))
              => \A c \in out : \E p \in in : VerySimilar(c, p)

(* What the finished runs have selected is in Label Studio, once for each, *)
(* and beyond that at most as often as an answer was lost: an import that  *)
(* failed is made good, one that was stored is not repeated unknowingly.   *)
TasksAreAccountedFor ==
    \A p \in Predictions :
       tasks[p] - Cardinality(Selecting(p)) \in 0..lost

(* The debounce swallows the first trigger in a host's first minute only:  *)
(* once every handler has ended without a failure, enough tasks are        *)
(* annotated and no call that found so came that early, a retraining has   *)
(* been asked for, whichever workers the calls reached and in whatever     *)
(* order they counted.                                                     *)
ThresholdIsNeverMissed ==
    (/\ annotated >= MinAnnotations
     /\ annotated > 0
     /\ faults = 0
     /\ \A e \in Events : hook[e].pc \in {"idle", "done"})
       => "labelling" \in retrainings

=============================================================================
