---------------------------- MODULE MonitoringFlow ----------------------------
(***************************************************************************)
(* The daily monitoring flow and G5: compare the logged predictions with   *)
(* the reference, publish what has drifted, and answer a failed drift gate *)
(* by severity with a rollback or an active-learning run, and with a       *)
(* retraining.  LabellingLoop has what its requests set off.               *)
(***************************************************************************)
EXTENDS LabellingLoop

CONSTANTS
    Flows,
    Columns,            \* predicted_class and confidence
    GateThreshold,      \* of the drift gate, 30 percent
    DriftShare,         \* from which Evidently calls it drift, 50
    LowThreshold,       \* of G5, 30
    HighThreshold,      \* 60
    FailOnDrift,
    TriggerRetraining

ASSUME MonitoringAssumption ==
    /\ {GateThreshold, DriftShare, LowThreshold, HighThreshold} \subseteq 0..100
    /\ {FailOnDrift, TriggerRetraining} \subseteq BOOLEAN
    /\ IsFiniteSet(Columns)

VARIABLES
    flow         \* flow -> its pc and its drift score; as history, its responses

vars == <<labellingVars, flow>>

-----------------------------------------------------------------------------
Goto(f, l) == flow' = [flow EXCEPT ![f].pc = l]
Respond(f, l, what) ==
    flow' = [flow EXCEPT ![f].pc = l, ![f].responses = @ \cup {what}]

(* Mutant: per mille.                                                      *)
SharePerMille(drifted, columns) ==
    (1000 * Cardinality(drifted)) \div Cardinality(columns)

(* DriftedColumnsCount: the share of the columns that have drifted.        *)
Share(drifted, columns) == (100 * Cardinality(drifted)) \div Cardinality(columns)

(* Mutant: more than the share.                                            *)
DetectedBeyond(score) == score > DriftShare

Detected(score) == score >= DriftShare

(* check_drift_threshold and evaluate_runtime_gate.                        *)
GatePasses(score) == score < GateThreshold

Severity(score) ==
    IF ~Detected(score) \/ score < LowThreshold THEN "low"
    ELSE IF score < HighThreshold THEN "medium" ELSE "high"

Init ==
    /\ LabellingInit
    /\ flow = [f \in Flows |-> [pc |-> "idle", score |-> 0, responses |-> {}]]

StartFlow(f) ==
    /\ flow[f].pc = "idle"
    /\ Goto(f, "fetch")
    /\ UNCHANGED labellingVars

(* Logs, reference and shared columns: a day without logs is skipped, and  *)
(* so are an empty reference and data without a column in common.  A fetch *)
(* is made three times.                                                    *)
FetchData(f) ==
    /\ flow[f].pc = "fetch"
    /\ \/ Goto(f, IF logged = {} THEN "skipped" ELSE "detect") /\ NoFault
       \/ Goto(f, "skipped") /\ NoFault
       \/ Fault("fetch") /\ UNCHANGED flow
    /\ UNCHANGED <<logged, al, tasks, annotated, hook, booting, debounced,
                   retrainings, counted, lost>>

(* run_drift_detection, whose metrics fail the flow if they cannot be      *)
(* pushed, and run_drift_quality_gate on the same data.                    *)
DetectDrift(f) ==
    /\ flow[f].pc = "detect"
    /\ \/ /\ \E columns \in (SUBSET Columns) \ {{}} : \E drifted \in SUBSET columns :
                LET score == Share(drifted, columns)
                IN  flow' = [flow EXCEPT ![f].score = score,
                                         ![f].pc = IF ~GatePasses(score) /\ FailOnDrift
                                                   THEN "failed" ELSE "report"]
          /\ NoFault
       \/ Goto(f, "failed") /\ Fault("metrics")
    /\ UNCHANGED <<logged, al, tasks, annotated, hook, booting, debounced,
                   retrainings, counted, lost>>

(* The report comes before the response.  The upload is made three times,  *)
(* its generation fails as often as it is tried.                           *)
UploadReport(f) ==
    /\ flow[f].pc = "report"
    /\ \/ /\ Goto(f, IF GatePasses(flow[f].score) THEN "completed"
                     ELSE CASE Severity(flow[f].score) = "low" -> "completed"
                            [] Severity(flow[f].score) = "medium" -> "al"
                            [] Severity(flow[f].score) = "high" -> "rollback")
          /\ NoFault
       \/ Goto(f, "failed") /\ Fault("report")
    /\ UNCHANGED <<logged, al, tasks, annotated, hook, booting, debounced,
                   retrainings, counted, lost>>

AfterFirst == IF TriggerRetraining THEN "retrain" ELSE "completed"

(* _trigger_rollback: the version before the champion, if there is one     *)
(* (ContinuousTraining has which).  A registry error is counted, a         *)
(* ValidationError is not caught.                                          *)
ReadVersions(f) ==
    /\ flow[f].pc = "rollback"
    /\ \/ Goto(f, "alias") /\ UNCHANGED <<counted, faults>>
       \/ Respond(f, AfterFirst, "nothingBefore") /\ UNCHANGED <<counted, faults>>
       \/ Respond(f, AfterFirst, "counted") /\ Count("rollback") /\ Fault("registry")
       \/ Goto(f, "failed") /\ Fault("settings") /\ UNCHANGED counted
    /\ UNCHANGED <<logged, al, tasks, annotated, hook, booting, debounced,
                   retrainings, lost>>

SetAlias(f) ==
    /\ flow[f].pc = "alias"
    /\ \/ Respond(f, "reload", "rolledBack") /\ UNCHANGED <<counted, faults>>
       \/ Respond(f, AfterFirst, "counted") /\ Count("rollback") /\ Fault("registry")
    /\ UNCHANGED <<logged, al, tasks, annotated, hook, booting, debounced,
                   retrainings, lost>>

(* The post has no body, which model_reload refuses with 422: counted.     *)
ReloadAfterRollback(f) ==
    /\ flow[f].pc = "reload"
    /\ Respond(f, AfterFirst, "counted")
    /\ Count("rollback")
    /\ UNCHANGED <<logged, al, tasks, annotated, hook, booting, debounced,
                   retrainings, lost, faults>>

(* _trigger_active_learning_pipeline.                                      *)
TriggerAL(f) ==
    /\ flow[f].pc = "al"
    /\ \/ /\ Respond(f, AfterFirst, "al")
          /\ UNCHANGED <<counted, faults>>
       \/ /\ Respond(f, AfterFirst, "counted")
          /\ Count("al_on_medium_drift")
          /\ Fault("request")
    /\ UNCHANGED <<logged, al, tasks, annotated, hook, booting, debounced,
                   retrainings, lost>>

(* _trigger_retraining_on_drift.                                           *)
TriggerRetrainingOnDrift(f) ==
    /\ flow[f].pc = "retrain"
    /\ \/ /\ Respond(f, "completed", "retraining")
          /\ retrainings' = retrainings \cup {"drift"}
          /\ UNCHANGED <<counted, faults>>
       \/ /\ Respond(f, "completed", "retrainingCounted")
          /\ retrainings' \in {retrainings, retrainings \cup {"drift"}}
          /\ Count("ct_on_drift")
          /\ Fault("request")
       \/ Goto(f, "failed") /\ Fault("settings") /\ UNCHANGED <<retrainings, counted>>
    /\ UNCHANGED <<logged, al, tasks, annotated, hook, booting, debounced,
                   lost>>

FlowStep(f) ==
    \/ FetchData(f) \/ DetectDrift(f) \/ UploadReport(f)
    \/ ReadVersions(f) \/ SetAlias(f) \/ ReloadAfterRollback(f)
    \/ TriggerAL(f) \/ TriggerRetrainingOnDrift(f)

Next ==
    \/ LabellingNext /\ UNCHANGED flow
    \/ \E f \in Flows : StartFlow(f) \/ FlowStep(f)

Spec == Init /\ [][Next]_vars

-----------------------------------------------------------------------------
Ended == {"skipped", "failed", "completed"}

TypeOK ==
    /\ LabellingTypeOK
    /\ flow \in [Flows -> [pc : {"idle", "fetch", "detect", "report", "rollback",
                                 "alias", "reload", "al", "retrain"} \cup Ended,
                           score : 0..100,
                           responses : SUBSET {"rolledBack", "nothingBefore", "counted",
                                               "al", "retraining", "retrainingCounted"}]]

(* A drift the gate refuses is answered: if the flow completes, a rollback *)
(* or an active-learning run was made or its failure counted, unless there *)
(* was nothing to roll back to, and so was the retraining.  The gate's     *)
(* threshold, the detector's and G5's leave no score between them.         *)
FailedGateIsAnswered ==
    \A f \in Flows :
       flow[f].pc = "completed" /\ ~GatePasses(flow[f].score) =>
          /\ flow[f].responses \cap {"rolledBack", "nothingBefore", "counted", "al"} # {}
          /\ TriggerRetraining =>
                flow[f].responses \cap {"retraining", "retrainingCounted"} # {}

=============================================================================
