------------------------ MODULE MonitoringFlow_proofs ------------------------
(***************************************************************************)
(* Theorems about MonitoringFlow, and the LabellingLoop in it, for any     *)
(* number of predictions, webhook calls, workers, runs, flows and faults.  *)
(***************************************************************************)
EXTENDS MonitoringFlow, FiniteSetTheorems, WellFoundedInduction, TLAPS

USE LabellingAssumption, MonitoringAssumption

HookRecord == [pc : {"idle", "check", "request", "done", "early", "failed", "lost"},
               worker : SUBSET Workers]

(* Faults are only ever added.                                             *)
LEMMA FaultCounts ==
    ASSUME faults \in Nat
    PROVE  /\ \A call : Fault(call) => faults' \in Nat /\ faults' # 0
           /\ NoFault => faults' = faults
  BY DEF Fault, NoFault

(* What the webhook does not see of a step: it changes nothing of the      *)
(* webhook's, forgets no retraining and forgives no fault.                 *)
Unheard ==
    /\ UNCHANGED <<annotated, hook, booting, debounced>>
    /\ retrainings \subseteq retrainings'
    /\ faults' \in Nat
    /\ faults' = 0 => faults = 0

LEMMA LoopUnheard ==
    ASSUME faults \in Nat,
           \/ \E p \in Predictions : LogPrediction(p)
           \/ \E a \in ALRuns : StartAL(a) \/ ALStep(a)
    PROVE  Unheard
  BY FaultCounts DEF LogPrediction, StartAL, ALStep, FetchUncertain, SelectSamples,
                     CreateTasks, Unheard

LEMMA FlowUnheard ==
    ASSUME faults \in Nat, NEW f \in Flows, StartFlow(f) \/ FlowStep(f)
    PROVE  Unheard
  <1> USE FaultCounts DEF Unheard
  <1>1. CASE StartFlow(f)
    BY <1>1 DEF StartFlow, labellingVars
  <1>2. CASE FetchData(f) \/ UploadReport(f)
    BY <1>2 DEF FetchData, UploadReport
  <1>3. CASE DetectDrift(f)
    BY <1>3 DEF DetectDrift
  <1>4. CASE ReadVersions(f) \/ SetAlias(f) \/ ReloadAfterRollback(f)
    BY <1>4 DEF ReadVersions, SetAlias, ReloadAfterRollback
  <1>5. CASE TriggerAL(f)
    BY <1>5 DEF TriggerAL
  <1>6. CASE TriggerRetrainingOnDrift(f)
    BY <1>6 DEF TriggerRetrainingOnDrift
  <1>7. QED
    BY <1>1, <1>2, <1>3, <1>4, <1>5, <1>6 DEF FlowStep

-----------------------------------------------------------------------------
(* But for its host's first minute a worker debounces only after a request *)
(* that was accepted; and while nothing has failed, once enough tasks are  *)
(* annotated a retraining has been asked for, or a handler will still      *)
(* count or ask, or has come too early to.                                 *)
ThresholdInv ==
    /\ annotated \in Nat
    /\ faults \in Nat
    /\ hook \in [Events -> HookRecord]
    /\ debounced # {} => "labelling" \in retrainings
    /\ (annotated >= MinAnnotations /\ annotated > 0 /\ faults = 0) =>
          \/ "labelling" \in retrainings
          \/ \E e \in Events : hook[e].pc \in {"check", "request", "early"}

LEMMA ThresholdInductive ==
    /\ Init => ThresholdInv
    /\ ThresholdInv /\ [Next]_vars => ThresholdInv'
  <1>1. Init => ThresholdInv
    BY DEF Init, LabellingInit, ThresholdInv, HookRecord
  <1>2. ASSUME ThresholdInv, [Next]_vars PROVE ThresholdInv'
    <2> USE <1>2, FaultCounts
    <2>1. ASSUME Unheard PROVE ThresholdInv'
      BY <2>1 DEF ThresholdInv, Unheard
    <2>2. ASSUME NEW e \in Events, Annotate(e) PROVE ThresholdInv'
      <3>1. annotated' = annotated + 1 /\ UNCHANGED <<booting, debounced, retrainings>>
        BY <2>2 DEF Annotate
      <3>2. PICK l \in {"check", "lost"} :
               /\ hook' = [hook EXCEPT ![e].pc = l]
               /\ (l = "check" /\ NoFault) \/ (l = "lost" /\ Fault("deliver"))
        BY <2>2 DEF Annotate
      <3>3. hook' \in [Events -> HookRecord] /\ hook'[e].pc = l
        BY <3>2 DEF ThresholdInv, HookRecord
      <3>4. faults' \in Nat /\ (faults' = 0 => l = "check")
        BY <3>2 DEF ThresholdInv
      <3>5. QED
        BY <3>1, <3>3, <3>4 DEF ThresholdInv
    <2>3. ASSUME NEW e \in Events, CheckCount(e) PROVE ThresholdInv'
      <3>1. UNCHANGED <<annotated, booting, debounced, retrainings>>
        BY <2>3 DEF CheckCount
      <3>2. PICK w \in Workers, l \in {"request", "done", "early", "failed"},
                 v \in SUBSET Workers :
               /\ hook' = [hook EXCEPT ![e] = [pc |-> l, worker |-> v]]
               /\ \/ w \in debounced /\ UNCHANGED faults
                  \/ UNCHANGED faults /\ (Enough(annotated) => l \in {"request", "early"})
                  \/ faults' \in Nat /\ faults' # 0
        BY <2>3 DEF CheckCount, ThresholdInv
      <3>3. hook' \in [Events -> HookRecord] /\ hook'[e].pc = l
        BY <3>2 DEF ThresholdInv, HookRecord
      <3>4. CASE w \in debounced /\ UNCHANGED faults
        BY <3>1, <3>3, <3>4 DEF ThresholdInv
      <3>5. CASE UNCHANGED faults /\ (Enough(annotated) => l \in {"request", "early"})
        BY <3>1, <3>3, <3>5 DEF ThresholdInv, Enough
      <3>6. CASE faults' \in Nat /\ faults' # 0
        BY <3>1, <3>3, <3>6 DEF ThresholdInv
      <3>7. QED
        BY <3>2, <3>4, <3>5, <3>6
    <2>4. ASSUME NEW e \in Events, RequestRetraining(e) PROVE ThresholdInv'
      <3>1. UNCHANGED annotated /\ hook' \in [Events -> HookRecord]
        BY <2>4 DEF RequestRetraining, ThresholdInv, HookRecord
      <3>2. CASE "labelling" \in retrainings' /\ UNCHANGED faults
        BY <3>1, <3>2 DEF ThresholdInv
      <3>3. CASE retrainings \subseteq retrainings' /\ Fault("request") /\ UNCHANGED debounced
        BY <3>1, <3>3 DEF ThresholdInv
      <3>4. QED
        BY <2>4, <3>2, <3>3 DEF RequestRetraining
    <2>5. ASSUME NEW w \in Workers, DebounceEnds(w) PROVE ThresholdInv'
      BY <2>5 DEF DebounceEnds, ThresholdInv
    <2>6. CASE UNCHANGED vars
      BY <2>6 DEF vars, labellingVars, ThresholdInv
    <2>7. QED
      BY <2>1, <2>2, <2>3, <2>4, <2>5, <2>6, LoopUnheard, FlowUnheard
         DEF Next, LabellingNext, HookStep, ThresholdInv
  <1>3. QED
    BY <1>1, <1>2

(* The debounce swallows the first trigger in a host's first minute only,  *)
(* for any number of workers and calls, in whatever order they count and   *)
(* wait (_maybe_trigger_retraining).                                       *)
THEOREM ThresholdKept == Spec => []ThresholdIsNeverMissed
  <1>1. ThresholdInv => ThresholdIsNeverMissed
    BY DEF ThresholdInv, ThresholdIsNeverMissed
  <1>2. QED
    BY <1>1, ThresholdInductive, PTL DEF Spec

-----------------------------------------------------------------------------
(* The drift scores Evidently can report.                                  *)
Scores ==
    UNION {{Share(drifted, columns) : drifted \in SUBSET columns} :
             columns \in (SUBSET Columns) \ {{}}}

(* The gate refuses no score that G5 then finds low.                       *)
NoScoreBetween == \A s \in Scores : ~GatePasses(s) => Severity(s) # "low"

First == {"rolledBack", "nothingBefore", "counted", "al"}
Second == {"retraining", "retrainingCounted"}

FlowRecord ==
    [pc : {"idle", "fetch", "detect", "report", "rollback", "alias", "reload", "al",
           "retrain"} \cup Ended,
     score : Scores \cup {0}, responses : SUBSET (First \cup Second)]

(* A flow whose gate has failed has its first response before its          *)
(* retraining, and both before it completes.                               *)
Answers(rec) ==
    /\ rec \in FlowRecord
    /\ rec.pc \in {"report", "rollback", "alias", "reload", "al", "retrain"}
          => rec.score \in Scores
    /\ ~GatePasses(rec.score) =>
          /\ rec.pc \in {"retrain", "completed"} => rec.responses \cap First # {}
          /\ rec.pc = "completed" /\ TriggerRetraining
                => rec.responses \cap Second # {}

AnswerInv ==
    /\ flow \in [Flows -> FlowRecord]
    /\ \A f \in Flows : Answers(flow[f])

(* A step that makes of one flow's record another that answers.            *)
LEMMA OneFlowAnswers ==
    ASSUME AnswerInv, NEW f \in Flows, NEW rec, Answers(rec),
           flow' = [flow EXCEPT ![f] = rec]
    PROVE  AnswerInv'
  <1>1. rec \in FlowRecord
    BY DEF Answers
  <1>2. flow' \in [Flows -> FlowRecord]
    BY <1>1 DEF AnswerInv
  <1>3. \A g \in Flows : flow'[g] = IF g = f THEN rec ELSE flow[g]
    BY DEF AnswerInv
  <1>4. \A g \in Flows : Answers(flow'[g])
    BY <1>3 DEF AnswerInv
  <1>5. QED
    BY <1>2, <1>4 DEF AnswerInv, Answers, FlowRecord, Ended, First, Second, Scores,
                      Share, GatePasses

(* Going where no answer is due yet, or the gate has passed.               *)
LEMMA GotoAnswers ==
    ASSUME AnswerInv, NEW f \in Flows, NEW l, Goto(f, l),
           \/ l \in {"fetch", "detect", "skipped", "failed"}
           \/ l \in {"rollback", "alias", "al"} /\ flow[f].score \in Scores
           \/ l = "completed" /\ GatePasses(flow[f].score)
    PROVE  AnswerInv'
  <1> DEFINE rec == [flow[f] EXCEPT !.pc = l]
  <1>1. flow' = [flow EXCEPT ![f] = rec]
    BY DEF Goto, AnswerInv
  <1>2. flow[f] \in FlowRecord
    BY DEF AnswerInv
  <1>3. /\ rec \in FlowRecord /\ rec.pc = l
        /\ rec.score = flow[f].score
    BY <1>2 DEF FlowRecord, Ended
  <1>4. Answers(rec)
    BY <1>3 DEF Answers
  <1> HIDE DEF rec
  <1>5. QED
    BY <1>1, <1>4, OneFlowAnswers

(* Responding: first with what leads on, then with the retraining.         *)
LEMMA RespondAnswers ==
    ASSUME AnswerInv, NEW f \in Flows, NEW l, NEW what, Respond(f, l, what),
           \/ what \in First /\ l = AfterFirst
           \/ what \in First /\ l = "reload"
           \/ what \in Second /\ l = "completed" /\ flow[f].pc = "retrain",
           flow[f].pc \in {"rollback", "alias", "reload", "al", "retrain"}
    PROVE  AnswerInv'
  <1> DEFINE rec == [flow[f] EXCEPT !.pc = l, !.responses = @ \cup {what}]
  <1>1. flow' = [flow EXCEPT ![f] = rec]
    BY DEF Respond, AnswerInv
  <1>2. flow[f] \in FlowRecord /\ Answers(flow[f])
    BY DEF AnswerInv
  <1>3. what \in First \cup Second /\ l \in {"reload", "retrain", "completed"}
    BY DEF AfterFirst
  <1>4. /\ rec \in FlowRecord /\ rec.pc = l
        /\ rec.score = flow[f].score
        /\ rec.responses = flow[f].responses \cup {what}
    BY <1>2, <1>3 DEF FlowRecord, Ended
  <1>5. flow[f].score \in Scores
    BY <1>2 DEF Answers
  <1> HIDE DEF rec
  <1>6. Answers(rec)
    BY <1>2, <1>4, <1>5 DEF Answers, AfterFirst
  <1>7. QED
    BY <1>1, <1>6, OneFlowAnswers

LEMMA FlowStepAnswers ==
    ASSUME NoScoreBetween, AnswerInv, NEW f \in Flows, StartFlow(f) \/ FlowStep(f)
    PROVE  AnswerInv'
  <1> USE GotoAnswers, RespondAnswers
  <1>1. CASE UNCHANGED flow
    BY <1>1 DEF AnswerInv
  <1>2. CASE StartFlow(f)
    BY <1>2 DEF StartFlow
  <1>3. CASE FetchData(f)
    BY <1>1, <1>3 DEF FetchData
  <1>4. CASE DetectDrift(f)
    <2>1. CASE Goto(f, "failed")
      BY <2>1
    <2>2. CASE \E columns \in (SUBSET Columns) \ {{}} : \E drifted \in SUBSET columns :
                  LET score == Share(drifted, columns)
                  IN  flow' = [flow EXCEPT ![f].score = score,
                                           ![f].pc = IF ~GatePasses(score) /\ FailOnDrift
                                                     THEN "failed" ELSE "report"]
      <3>1. PICK columns \in (SUBSET Columns) \ {{}} : \E drifted \in SUBSET columns :
                  LET score == Share(drifted, columns)
                  IN  flow' = [flow EXCEPT ![f].score = score,
                                           ![f].pc = IF ~GatePasses(score) /\ FailOnDrift
                                                     THEN "failed" ELSE "report"]
        BY <2>2
      <3>2. PICK drifted \in SUBSET columns :
               flow' = [flow EXCEPT ![f].score = Share(drifted, columns),
                                    ![f].pc = IF ~GatePasses(Share(drifted, columns))
                                                    /\ FailOnDrift
                                              THEN "failed" ELSE "report"]
        BY <3>1
      <3> DEFINE s == Share(drifted, columns)
                 l == IF ~GatePasses(s) /\ FailOnDrift THEN "failed" ELSE "report"
      <3>3. s \in Scores
        BY DEF Scores
      <3>4. flow' = [flow EXCEPT ![f].score = s, ![f].pc = l]
        BY <3>2
      <3>5. l \in {"failed", "report"}
        OBVIOUS
      <3> HIDE DEF s, l
      <3> DEFINE rec == [flow[f] EXCEPT !.score = s, !.pc = l]
      <3>6. flow' = [flow EXCEPT ![f] = rec]
        BY <3>4 DEF AnswerInv
      <3>7. flow[f] \in FlowRecord
        BY DEF AnswerInv
      <3>8. rec \in FlowRecord /\ rec.pc = l /\ rec.score = s
        BY <3>3, <3>5, <3>7 DEF FlowRecord, Ended
      <3>9. Answers(rec)
        BY <3>3, <3>5, <3>8 DEF Answers
      <3> HIDE DEF rec
      <3>10. QED
        BY <3>6, <3>9, OneFlowAnswers
    <2>3. QED
      BY <1>4, <2>1, <2>2 DEF DetectDrift
  <1>5. CASE UploadReport(f)
    <2>1. flow[f].pc = "report" /\ flow[f].score \in Scores
      BY <1>5 DEF UploadReport, AnswerInv, Answers
    <2>2. Severity(flow[f].score) \in {"low", "medium", "high"}
      BY DEF Severity
    <2>3. CASE GatePasses(flow[f].score)
      BY <1>5, <2>3 DEF UploadReport
    <2>4. CASE ~GatePasses(flow[f].score)
      <3>1. Severity(flow[f].score) \in {"medium", "high"}
        BY <2>1, <2>2, <2>4 DEF NoScoreBetween
      <3>2. Goto(f, "al") \/ Goto(f, "rollback") \/ Goto(f, "failed")
        BY <1>5, <2>4, <3>1 DEF UploadReport
      <3>3. QED
        BY <2>1, <3>2
    <2>5. QED
      BY <2>3, <2>4
  <1>6. CASE ReadVersions(f)
    <2>1. flow[f].score \in Scores
      BY <1>6 DEF ReadVersions, AnswerInv, Answers
    <2>2. QED
      BY <1>6, <2>1 DEF ReadVersions, First
  <1>7. CASE SetAlias(f)
    BY <1>7 DEF SetAlias, First
  <1>8. CASE ReloadAfterRollback(f)
    BY <1>8 DEF ReloadAfterRollback, First
  <1>9. CASE TriggerAL(f)
    BY <1>9 DEF TriggerAL, First
  <1>10. CASE TriggerRetrainingOnDrift(f)
    BY <1>10 DEF TriggerRetrainingOnDrift, Second
  <1>11. QED
    BY <1>2, <1>3, <1>4, <1>5, <1>6, <1>7, <1>8, <1>9, <1>10 DEF FlowStep

(* A drift the gate refuses is answered, for every value of the four       *)
(* thresholds that leaves no score between the gate's and the detector's   *)
(* (monitoring_flow, evaluate_runtime_gate).                               *)
THEOREM FailedGateAnswered ==
    ASSUME NoScoreBetween
    PROVE  Spec => []FailedGateIsAnswered
  <1>1. Init => AnswerInv
    BY DEF Init, AnswerInv, Answers, FlowRecord, Ended
  <1>2. ASSUME AnswerInv, [Next]_vars PROVE AnswerInv'
    <2>1. CASE UNCHANGED flow
      BY <1>2, <2>1 DEF AnswerInv
    <2>2. QED
      BY <1>2, <2>1, FlowStepAnswers DEF Next, vars
  <1>3. AnswerInv => FailedGateIsAnswered
    BY DEF AnswerInv, Answers, FailedGateIsAnswered, First, Second
  <1>4. QED
    BY <1>1, <1>2, <1>3, PTL DEF Spec

-----------------------------------------------------------------------------
(* Of an active-learning run only that it is one, and has selected nothing *)
(* before it selects: what the selector returns does not matter here.      *)
Shape(rec) ==
    /\ rec \in [pc : {rec.pc}, fetched : {rec.fetched}, selected : {rec.selected}]
    /\ rec.pc \in {"idle", "fetch", "select"} => rec.selected = {}

TaskInv ==
    /\ al = [a \in ALRuns |-> al[a]]
    /\ \A a \in ALRuns : Shape(al[a])
    /\ tasks \in [Predictions -> Nat]
    /\ lost \in Nat
    /\ TasksAreAccountedFor

(* A run's step to a record: the other runs stay.                          *)
LEMMA RunTo ==
    ASSUME TaskInv, NEW a \in ALRuns, NEW rec, Shape(rec), al' = [al EXCEPT ![a] = rec]
    PROVE  /\ al' = [b \in ALRuns |-> al'[b]]
           /\ \A b \in ALRuns : Shape(al'[b])
           /\ al'[a] = rec
           /\ \A b \in ALRuns : b # a => al'[b] = al[b]
  BY DEF TaskInv

(* What an unfinished run does leaves what the finished ones selected.     *)
LEMMA StillSelecting ==
    ASSUME TaskInv, NEW a \in ALRuns, NEW rec, Shape(rec), al' = [al EXCEPT ![a] = rec],
           al[a].pc # "done", rec.pc # "done" \/ rec.selected = {},
           UNCHANGED <<tasks, lost>>
    PROVE  TaskInv'
  <1>1. \A p \in Predictions : Selecting(p)' = Selecting(p)
    BY RunTo DEF Selecting
  <1>2. TasksAreAccountedFor'
    BY <1>1 DEF TaskInv, TasksAreAccountedFor
  <1>3. QED
    BY <1>2, RunTo DEF TaskInv

LEMMA SelectingFinite ==
    ASSUME NEW p
    PROVE  IsFiniteSet(Selecting(p)) /\ Cardinality(Selecting(p)) \in Nat
  BY FS_Subset, FS_CardinalityType DEF Selecting

(* An import that succeeds finishes its run and adds what it selected.     *)
LEMMA ImportKeeps ==
    ASSUME TaskInv, NEW a \in ALRuns, al[a].pc = "import", Imported(a),
           al' = [al EXCEPT ![a].pc = "done", ![a].fetched = {}], UNCHANGED lost
    PROVE  TaskInv'
  <1> DEFINE rec == [al[a] EXCEPT !.pc = "done", !.fetched = {}]
  <1>1. al' = [al EXCEPT ![a] = rec]
    BY DEF TaskInv
  <1>2. al[a] \in [pc : {al[a].pc}, fetched : {al[a].fetched}, selected : {al[a].selected}]
    BY DEF TaskInv, Shape
  <1>3. rec \in [pc : {"done"}, fetched : {{}}, selected : {al[a].selected}]
    BY <1>2
  <1>4. Shape(rec) /\ rec.pc = "done" /\ rec.selected = al[a].selected
    BY <1>3 DEF Shape
  <1> HIDE DEF rec
  <1>5. /\ al' = [b \in ALRuns |-> al'[b]]
        /\ \A b \in ALRuns : Shape(al'[b])
        /\ al'[a] = rec
        /\ \A b \in ALRuns : b # a => al'[b] = al[b]
    BY <1>1, <1>4, RunTo
  <1>6. tasks' \in [Predictions -> Nat]
    BY DEF Imported, TaskInv
  <1>7. ASSUME NEW p \in Predictions
        PROVE  tasks'[p] - Cardinality(Selecting(p)') \in 0..lost'
    <2>1. CASE p \in al[a].selected
      <3>1. Selecting(p)' = Selecting(p) \cup {a} /\ a \notin Selecting(p)
        BY <1>4, <1>5, <2>1 DEF Selecting
      <3>2. Cardinality(Selecting(p)') = Cardinality(Selecting(p)) + 1
        BY <3>1, SelectingFinite, FS_AddElement
      <3>3. tasks'[p] = tasks[p] + 1
        BY <2>1 DEF Imported
      <3>4. QED
        BY <3>2, <3>3, SelectingFinite DEF TaskInv, TasksAreAccountedFor
    <2>2. CASE p \notin al[a].selected
      <3>1. Selecting(p)' = Selecting(p)
        BY <1>4, <1>5, <2>2 DEF Selecting
      <3>2. tasks'[p] = tasks[p]
        BY <2>2 DEF Imported, TaskInv
      <3>3. QED
        BY <3>1, <3>2 DEF TaskInv, TasksAreAccountedFor
    <2>3. QED
      BY <2>1, <2>2
  <1>8. QED
    BY <1>5, <1>6, <1>7 DEF TaskInv, TasksAreAccountedFor

LEMMA ALStepKeeps ==
    ASSUME TaskInv, NEW a \in ALRuns, StartAL(a) \/ ALStep(a)
    PROVE  TaskInv'
  <1>1. al[a] \in [pc : {al[a].pc}, fetched : {al[a].fetched}, selected : {al[a].selected}]
    BY DEF TaskInv, Shape
  <1>2. ASSUME UNCHANGED <<al, tasks, lost>> PROVE TaskInv'
    BY <1>2 DEF TaskInv, TasksAreAccountedFor, Selecting
  <1>3. CASE StartAL(a)
    <2> DEFINE rec == [al[a] EXCEPT !.pc = "fetch"]
    <2>1. al' = [al EXCEPT ![a] = rec] /\ UNCHANGED <<tasks, lost>> /\ al[a].pc = "idle"
      BY <1>3 DEF StartAL, TaskInv
    <2>2. rec \in [pc : {"fetch"}, fetched : {al[a].fetched}, selected : {al[a].selected}]
      BY <1>1
    <2>3. al[a].selected = {}
      BY <2>1 DEF TaskInv, Shape
    <2> HIDE DEF rec
    <2>4. QED
      BY <2>1, <2>2, <2>3, StillSelecting DEF Shape
  <1>4. CASE FetchUncertain(a)
    <2>1. al[a].pc = "fetch" /\ al[a].selected = {} /\ UNCHANGED <<tasks, lost>>
      BY <1>4 DEF FetchUncertain, TaskInv, Shape
    <2>2. CASE UNCHANGED al
      BY <1>2, <2>1, <2>2
    <2>3. CASE ~UNCHANGED al
      <3> DEFINE S == {p \in logged : Route(p) = "human_review"}
                 l == IF S = {} THEN "done" ELSE "select"
      <3>1. al' = [al EXCEPT ![a].fetched = S, ![a].pc = l]
        BY <1>4, <2>3 DEF FetchUncertain
      <3> HIDE DEF S
      <3> DEFINE rec == [al[a] EXCEPT !.fetched = S, !.pc = l]
      <3>2. al' = [al EXCEPT ![a] = rec]
        BY <3>1 DEF TaskInv
      <3>3. rec \in [pc : {l}, fetched : {S}, selected : {{}}]
        BY <1>1, <2>1
      <3> HIDE DEF rec
      <3>4. QED
        BY <2>1, <3>2, <3>3, StillSelecting DEF Shape
    <2>4. QED
      BY <2>2, <2>3
  <1>5. CASE SelectSamples(a)
    <2>1. PICK S : al' = [al EXCEPT ![a].selected = S, ![a].pc = "import"]
      BY <1>5 DEF SelectSamples
    <2> DEFINE rec == [al[a] EXCEPT !.selected = S, !.pc = "import"]
    <2>2. al' = [al EXCEPT ![a] = rec] /\ UNCHANGED <<tasks, lost>> /\ al[a].pc = "select"
      BY <1>5, <2>1 DEF SelectSamples, TaskInv
    <2>3. rec \in [pc : {"import"}, fetched : {al[a].fetched}, selected : {S}]
      BY <1>1
    <2> HIDE DEF rec
    <2>4. QED
      BY <2>2, <2>3, StillSelecting DEF Shape
  <1>6. CASE CreateTasks(a)
    <2>1. al[a].pc = "import"
      BY <1>6 DEF CreateTasks
    <2>2. CASE /\ Imported(a)
               /\ al' = [al EXCEPT ![a].pc = "done", ![a].fetched = {}]
               /\ UNCHANGED <<lost, faults>>
      BY <2>1, <2>2, ImportKeeps
    <2>3. CASE UNCHANGED <<al, tasks, lost>>
      BY <1>2, <2>3
    <2>4. CASE Imported(a) /\ lost' = lost + 1 /\ UNCHANGED al
      <3>1. tasks' \in [Predictions -> Nat]
        BY <2>4 DEF Imported, TaskInv
      <3>2. \A p \in Predictions : tasks'[p] \in {tasks[p], tasks[p] + 1}
        BY <2>4 DEF Imported, TaskInv
      <3>3. \A p \in Predictions : Selecting(p)' = Selecting(p)
        BY <2>4 DEF Selecting
      <3>4. TasksAreAccountedFor'
        BY <2>4, <3>2, <3>3, SelectingFinite DEF TaskInv, TasksAreAccountedFor
      <3>5. QED
        BY <2>4, <3>1, <3>4 DEF TaskInv
    <2>5. QED
      BY <1>6, <2>2, <2>3, <2>4 DEF CreateTasks
  <1>7. QED
    BY <1>3, <1>4, <1>5, <1>6 DEF ALStep

LEMMA TasksInductive ==
    /\ Init => TaskInv
    /\ TaskInv /\ [Next]_vars => TaskInv'
  <1>1. Init => TaskInv
    <2> SUFFICES ASSUME Init PROVE TaskInv
      OBVIOUS
    <2>1. \A p \in Predictions : Selecting(p) = {} /\ tasks[p] = 0
      BY DEF Init, LabellingInit, Selecting
    <2>2. lost = 0 /\ Cardinality({}) = 0
      BY FS_EmptySet DEF Init, LabellingInit
    <2>3. TasksAreAccountedFor
      BY <2>1, <2>2 DEF TasksAreAccountedFor
    <2>4. QED
      BY <2>3 DEF Init, LabellingInit, TaskInv, Shape
  <1>2. ASSUME TaskInv, [Next]_vars PROVE TaskInv'
    <2>1. CASE \E a \in ALRuns : StartAL(a) \/ ALStep(a)
      BY <1>2, <2>1, ALStepKeeps
    <2>2. CASE UNCHANGED <<al, tasks, lost>>
      BY <1>2, <2>2 DEF TaskInv, TasksAreAccountedFor, Selecting
    <2>3. ASSUME NEW e \in Events, Annotate(e) \/ HookStep(e)
          PROVE  UNCHANGED <<al, tasks, lost>>
      BY <2>3 DEF HookStep, Annotate, CheckCount, RequestRetraining
    <2>4. ASSUME NEW f \in Flows, StartFlow(f) \/ FlowStep(f)
          PROVE  UNCHANGED <<al, tasks, lost>>
      BY <2>4 DEF StartFlow, FlowStep, FetchData, DetectDrift, UploadReport, ReadVersions,
                  SetAlias, ReloadAfterRollback, TriggerAL, TriggerRetrainingOnDrift,
                  labellingVars
    <2>5. \/ \E a \in ALRuns : StartAL(a) \/ ALStep(a)
          \/ UNCHANGED <<al, tasks, lost>>
      BY <1>2, <2>3, <2>4 DEF Next, LabellingNext, LogPrediction, DebounceEnds, vars,
                              labellingVars
    <2>6. QED
      BY <2>1, <2>2, <2>5
  <1>3. QED
    BY <1>1, <1>2

(* What the finished runs have selected is in Label Studio, once for each, *)
(* and beyond that at most as often as an answer was lost, for any number  *)
(* of runs and whatever each selects (create_labeling_tasks).              *)
THEOREM TasksAccounted == Spec => []TasksAreAccountedFor
  <1>1. TaskInv => TasksAreAccountedFor
    BY DEF TaskInv
  <1>2. QED
    BY <1>1, TasksInductive, PTL DEF Spec

-----------------------------------------------------------------------------
(* Induction, as a fact about sets: the library states it for an operator, *)
(* which the provers cannot instantiate, but that the numbers are          *)
(* well-founded it states of a relation.                                   *)
LEMMA LeastNumber ==
    ASSUME NEW T \in SUBSET Nat, T # {}
    PROVE  \E n \in T : \A m \in T : n <= m
  <1> DEFINE R == OpToRel(<, Nat)
  <1>1. IsWellFoundedOn(R, Nat)
    BY NatLessThanWellFounded
  <1> HIDE DEF R
  <1>2. PICK x \in T : \A y \in T : ~ (<<y, x>> \in R)
    BY <1>1, WFMin
  <1>3. \A y \in T : ~(y < x)
    BY <1>2 DEF R, OpToRel
  <1>4. QED
    BY <1>3

LEMMA Induction ==
    ASSUME NEW S \in SUBSET Nat, 0 \in S, \A n \in S : n + 1 \in S
    PROVE  S = Nat
  <1>1. SUFFICES ASSUME Nat \ S # {} PROVE FALSE
    OBVIOUS
  <1>2. PICK n \in Nat \ S : \A m \in Nat \ S : n <= m
    BY <1>1, LeastNumber
  <1>3. n # 0 /\ n - 1 \in Nat
    BY <1>2
  <1>4. n - 1 \in S
    BY <1>2, <1>3
  <1>5. QED
    BY <1>2, <1>4

(* What SelectSamples grows: first a most uncertain sample, then the best  *)
(* score, as Selections has it.                                            *)
Starts(S) == {{p} : p \in MostUncertain(S)}
Extended(S, C) ==
    UNION {{chosen \cup {p} : p \in BestNext(S \ chosen, chosen, Min({Uncertainty[p] : p \in S}))} :
              chosen \in C}

Grown(S) ==
    CHOOSE g : g = [k \in 1..MaxSamples |->
                      IF k = 1 THEN Starts(S) ELSE Extended(S, g[k - 1])]

LEMMA SelectionsGrow ==
    ASSUME NEW S
    PROVE Selections(S) = IF Cardinality(S) <= MaxSamples THEN {S} ELSE Grown(S)[MaxSamples]
  BY Zenon DEF Selections, Grown, Starts, Extended

(* The recursion defines what it says: by induction there is a function    *)
(* that satisfies it up to any number.                                     *)
LEMMA GrownUnfolds ==
    ASSUME NEW S
    PROVE  Grown(S) = [k \in 1..MaxSamples |->
                          IF k = 1 THEN Starts(S) ELSE Extended(S, Grown(S)[k - 1])]
  <1> DEFINE Unfolds(g, n) == g = [k \in 1..n |-> IF k = 1 THEN Starts(S) ELSE Extended(S, g[k - 1])]
             T == {n \in Nat : \E g : Unfolds(g, n)}
  <1>1. 0 \in T
    <2> DEFINE g == [k \in 1..0 |-> IF k = 1 THEN Starts(S) ELSE {}]
    <2>1. Unfolds(g, 0)
      OBVIOUS
    <2>2. QED
      BY <2>1
  <1>2. ASSUME NEW n \in T
        PROVE  n + 1 \in T
    <2>1. n \in Nat
      BY <1>2
    <2>2. PICK g : Unfolds(g, n)
      BY <1>2
    <2> DEFINE h == [k \in 1..(n + 1) |-> IF k = 1 THEN Starts(S) ELSE Extended(S, g[k - 1])]
    <2>3. \A k \in 1..n : h[k] = g[k]
      BY <2>1, <2>2
    <2>4. \A k \in 1..(n + 1) : k # 1 => k - 1 \in 1..n
      BY <2>1
    <2> DEFINE e == [k \in 1..(n + 1) |-> IF k = 1 THEN Starts(S) ELSE Extended(S, h[k - 1])]
    <2>5. \A k \in 1..(n + 1) : h[k] = e[k]
      <3>1. \A k \in 1..(n + 1) : k # 1 => Extended(S, h[k - 1]) = Extended(S, g[k - 1])
        <4> HIDE DEF h
        <4>1. QED
          BY <2>3, <2>4
      <3>2. QED
        BY <3>1
    <2>6. h = e
      <3>1. h = [k \in 1..(n + 1) |-> h[k]]
        OBVIOUS
      <3>2. e = [k \in 1..(n + 1) |-> e[k]]
        OBVIOUS
      <3> HIDE DEF h, e
      <3>3. QED
        BY <2>5, <3>1, <3>2
    <2>7. \E f : Unfolds(f, n + 1)
      <3>1. Unfolds(h, n + 1)
        BY <2>6, Zenon
      <3>2. QED
        BY <3>1, Zenon
    <2>8. QED
      BY <2>1, <2>7
  <1> HIDE DEF T
  <1>3. T = Nat
    BY <1>1, <1>2, Induction DEF T
  <1>4. \E g : Unfolds(g, MaxSamples)
    BY <1>3 DEF T
  <1>5. QED
    BY <1>4 DEF Grown

(* What the selector's minima and distances are.                           *)
LEMMA MinimumIs ==
    ASSUME NEW T \in SUBSET Nat, T # {}
    PROVE  Min(T) \in T /\ \A m \in T : Min(T) <= m
  <1>1. \E n \in T : \A m \in T : n <= m
    BY LeastNumber
  <1>2. QED
    BY <1>1 DEF Min

LEMMA DistanceIs ==
    ASSUME NEW p \in Predictions, NEW q \in Predictions, Uncertainty[q] >= Uncertainty[p]
    PROVE  Distance(p, q) = Uncertainty[q] - Uncertainty[p]
  <1> DEFINE d == Uncertainty[q] - Uncertainty[p]
             e == Uncertainty[p] - Uncertainty[q]
  <1>1. d \in Int /\ e \in Int /\ d >= e
    OBVIOUS
  <1>2. Distance(p, q) = CHOOSE x \in {e, d} : \A y \in {e, d} : x >= y
    BY DEF Distance, Max
  <1> HIDE DEF d, e
  <1>3. \E x \in {e, d} : \A y \in {e, d} : x >= y
    BY <1>1
  <1>4. \A x \in {e, d} : (\A y \in {e, d} : x >= y) => x = d
    BY <1>1
  <1>5. QED
    BY <1>2, <1>3, <1>4 DEF d

(* The n that are chosen from S, and while diversity weighs less than a    *)
(* half none that is left is more uncertain.                               *)
Chosen(S, n, chosen) ==
    /\ chosen \in SUBSET S
    /\ IsFiniteSet(chosen)
    /\ Cardinality(chosen) = n
    /\ DiversityWeight < 5 =>
          \A p \in chosen, q \in S \ chosen : Uncertainty[p] >= Uncertainty[q]

(* The best score is that of the most uncertain: the nearest chosen is the *)
(* least uncertain of them, so the score grows with 10 less twice the      *)
(* weight times the uncertainty.                                           *)
LEMMA BestIsMostUncertain ==
    ASSUME DiversityWeight < 5, NEW S \in SUBSET Predictions, NEW n \in Nat \ {0},
           NEW chosen, Chosen(S, n, chosen), NEW least \in Int,
           NEW p \in BestNext(S \ chosen, chosen, least), NEW q \in S \ chosen
    PROVE  Uncertainty[p] >= Uncertainty[q]
  <1> DEFINE levels == {Uncertainty[c] : c \in chosen}
             low == Min(levels)
  <1>1. chosen # {}
    BY FS_EmptySet DEF Chosen
  <1>2. low \in levels /\ low \in Nat /\ \A m \in levels : low <= m
    <2>1. levels \in SUBSET Nat /\ levels # {}
      BY <1>1 DEF Chosen
    <2> HIDE DEF levels
    <2>2. QED
      BY <2>1, MinimumIs
  <1>3. ASSUME NEW x \in S \ chosen
        PROVE  Min({Distance(x, c) : c \in chosen}) = low - Uncertainty[x]
    <2> DEFINE D == {Distance(x, c) : c \in chosen}
    <2>1. \A c \in chosen : /\ Uncertainty[c] \in Nat /\ Uncertainty[x] \in Nat
                            /\ Uncertainty[c] >= Uncertainty[x]
                            /\ Distance(x, c) = Uncertainty[c] - Uncertainty[x]
      BY DistanceIs DEF Chosen
    <2>2. D \in SUBSET Nat /\ D # {}
      BY <1>1, <2>1
    <2>3. Min(D) \in D /\ \A d \in D : Min(D) <= d
      <3> HIDE DEF D
      <3>1. QED
        BY <2>2, MinimumIs
    <2>4. PICK c \in chosen : Min(D) = Uncertainty[c] - Uncertainty[x]
      BY <2>1, <2>3
    <2>5. PICK b \in chosen : low = Uncertainty[b]
      BY <1>2
    <2>6. Min(D) <= low - Uncertainty[x]
      BY <2>1, <2>3, <2>5
    <2>7. low <= Uncertainty[c]
      BY <1>2
    <2> HIDE DEF D, low, levels
    <2>8. QED
      BY <1>2, <2>1, <2>4, <2>6, <2>7 DEF D
  <1> DEFINE u(x) == Uncertainty[x]
  <1>4. p \in S \ chosen /\ Score(p, chosen, least) >= Score(q, chosen, least)
    BY DEF BestNext
  <1>5. u(p) \in Nat /\ u(q) \in Nat
    BY <1>4
  <1> HIDE DEF low
  <1>6. (10 - DiversityWeight) * (u(p) - least) + DiversityWeight * (low - u(p))
           >= (10 - DiversityWeight) * (u(q) - least) + DiversityWeight * (low - u(q))
    BY <1>3, <1>4 DEF Score
  <1> HIDE DEF u
  <1>7. DiversityWeight \in {0, 1, 2, 3, 4}
    OBVIOUS
  <1>8. u(p) >= u(q)
    BY <1>2, <1>5, <1>6, <1>7
  <1>9. QED
    BY <1>8 DEF u

LEMMA OneMoreChosen ==
    ASSUME NEW S \in SUBSET Predictions, NEW n \in Nat \ {0}, NEW C,
           \A chosen \in C : Chosen(S, n, chosen), NEW more \in Extended(S, C)
    PROVE  Chosen(S, n + 1, more)
  <1> DEFINE least == Min({Uncertainty[p] : p \in S})
  <1>1. PICK chosen \in C : more \in {chosen \cup {p} : p \in BestNext(S \ chosen, chosen, least)}
    BY DEF Extended
  <1>2. PICK p \in BestNext(S \ chosen, chosen, least) : more = chosen \cup {p}
    BY <1>1
  <1>3. Chosen(S, n, chosen)
    BY <1>1
  <1>4. p \in S \ chosen
    BY <1>2 DEF BestNext
  <1>5. least \in Int
    <2> DEFINE levels == {Uncertainty[x] : x \in S}
    <2>1. levels \in SUBSET Nat /\ levels # {}
      BY <1>4
    <2> HIDE DEF levels
    <2>2. Min(levels) \in Nat
      BY <2>1, MinimumIs
    <2>3. QED
      BY <2>2 DEF levels
  <1> HIDE DEF least
  <1>6. IsFiniteSet(more) /\ Cardinality(more) = n + 1
    BY <1>2, <1>3, <1>4, FS_AddElement DEF Chosen
  <1>7. ASSUME DiversityWeight < 5
        PROVE  \A c \in more, q \in S \ more : Uncertainty[c] >= Uncertainty[q]
    <2>1. \A q \in S \ chosen : Uncertainty[p] >= Uncertainty[q]
      BY <1>2, <1>3, <1>5, <1>7, BestIsMostUncertain
    <2>2. QED
      BY <1>2, <1>3, <1>7, <2>1 DEF Chosen
  <1>8. QED
    BY <1>2, <1>3, <1>4, <1>6, <1>7 DEF Chosen

(* By induction on how many are chosen.                                    *)
LEMMA GrownAreChosen ==
    ASSUME NEW S \in SUBSET Predictions
    PROVE  \A chosen \in Grown(S)[MaxSamples] : Chosen(S, MaxSamples, chosen)
  <1> DEFINE T == {n \in Nat : n \in 1..MaxSamples =>
                                  \A chosen \in Grown(S)[n] : Chosen(S, n, chosen)}
  <1>1. 0 \in T
    OBVIOUS
  <1>2. ASSUME NEW n \in T
        PROVE  n + 1 \in T
    <2>1. SUFFICES ASSUME n + 1 \in 1..MaxSamples, NEW chosen \in Grown(S)[n + 1]
                   PROVE  Chosen(S, n + 1, chosen)
      OBVIOUS
    <2>2. CASE n = 0
      <3>1. chosen \in Starts(S)
        BY <2>1, <2>2, GrownUnfolds
      <3>2. PICK p \in S : chosen = {p} /\ \A q \in S : Uncertainty[p] >= Uncertainty[q]
        BY <3>1 DEF Starts, MostUncertain
      <3>3. IsFiniteSet(chosen) /\ Cardinality(chosen) = 1
        BY <3>2, FS_Singleton
      <3>4. QED
        BY <2>2, <3>2, <3>3 DEF Chosen
    <2>3. CASE n # 0
      <3>1. n \in 1..MaxSamples /\ n \in Nat \ {0} /\ (n + 1) - 1 = n
        BY <2>1, <2>3
      <3>2. \A c \in Grown(S)[n] : Chosen(S, n, c)
        BY <3>1
      <3>3. Grown(S)[n + 1] = Extended(S, Grown(S)[n])
        BY <2>1, <2>3, <3>1, GrownUnfolds
      <3>4. QED
        BY <2>1, <3>1, <3>2, <3>3, OneMoreChosen
    <2>4. QED
      BY <2>2, <2>3
  <1> HIDE DEF T
  <1>3. T = Nat
    BY <1>1, <1>2, Induction DEF T
  <1>4. QED
    BY <1>3 DEF T

LEMMA SelectionsChoose ==
    ASSUME NEW S \in SUBSET Predictions, IsFiniteSet(S), NEW T \in Selections(S)
    PROVE  Chosen(S, Min({MaxSamples, Cardinality(S)}), T)
  <1>1. Cardinality(S) \in Nat
    BY FS_CardinalityType
  <1>2. /\ Cardinality(S) <= MaxSamples => Min({MaxSamples, Cardinality(S)}) = Cardinality(S)
        /\ ~(Cardinality(S) <= MaxSamples) => Min({MaxSamples, Cardinality(S)}) = MaxSamples
    <2> DEFINE pair == {MaxSamples, Cardinality(S)}
    <2>1. pair \in SUBSET Nat /\ pair # {}
      BY <1>1
    <2>2. Min(pair) \in pair /\ \A m \in pair : Min(pair) <= m
      <3> HIDE DEF pair
      <3>1. QED
        BY <2>1, MinimumIs
    <2>3. QED
      BY <1>1, <2>2
  <1>3. CASE Cardinality(S) <= MaxSamples
    <2>1. T = S
      BY <1>3, SelectionsGrow
    <2>2. QED
      BY <1>2, <1>3, <2>1 DEF Chosen
  <1>4. CASE ~(Cardinality(S) <= MaxSamples)
    <2>1. T \in Grown(S)[MaxSamples]
      BY <1>4, SelectionsGrow
    <2>2. QED
      BY <1>2, <1>4, <2>1, GrownAreChosen
  <1>5. QED
    BY <1>3, <1>4

-----------------------------------------------------------------------------
ALRecord ==
    [pc : {"idle", "fetch", "select", "import", "done"},
     fetched : SUBSET logged, selected : SUBSET logged]

(* What a run is about to import is what the selector may choose.          *)
Selected(rec) ==
    rec.pc = "import" =>
       Chosen(rec.fetched, Min({MaxSamples, Cardinality(rec.fetched)}), rec.selected)

SelectInv ==
    /\ logged \in SUBSET Predictions
    /\ IsFiniteSet(logged)
    /\ al \in [ALRuns -> ALRecord]
    /\ \A a \in ALRuns : Selected(al[a])

(* A run's step to a record that is what it should be.                     *)
LEMMA RunSelects ==
    ASSUME SelectInv, NEW a \in ALRuns, NEW rec \in ALRecord, Selected(rec),
           al' = [al EXCEPT ![a] = rec], UNCHANGED logged
    PROVE  SelectInv'
  <1>1. al' \in [ALRuns -> ALRecord'] /\ \A b \in ALRuns : al'[b] = IF b = a THEN rec ELSE al[b]
    BY DEF SelectInv, ALRecord
  <1>2. \A b \in ALRuns : Selected(al'[b])
    BY <1>1 DEF SelectInv
  <1>3. QED
    BY <1>1, <1>2 DEF SelectInv, Selected, Chosen

LEMMA ALStepSelects ==
    ASSUME SelectInv, NEW a \in ALRuns, StartAL(a) \/ ALStep(a)
    PROVE  SelectInv'
  <1>1. al[a] \in ALRecord /\ Selected(al[a])
    BY DEF SelectInv
  <1>2. ASSUME UNCHANGED <<logged, al>> PROVE SelectInv'
    BY <1>2 DEF SelectInv, ALRecord, Selected, Chosen
  <1>3. CASE StartAL(a)
    <2> DEFINE rec == [al[a] EXCEPT !.pc = "fetch"]
    <2>1. al' = [al EXCEPT ![a] = rec] /\ UNCHANGED logged
      BY <1>3 DEF StartAL, SelectInv
    <2>2. rec \in ALRecord /\ rec.pc = "fetch"
      BY <1>1 DEF ALRecord
    <2> HIDE DEF rec
    <2>3. QED
      BY <2>1, <2>2, RunSelects DEF Selected
  <1>4. CASE FetchUncertain(a)
    <2>1. CASE UNCHANGED al
      BY <1>2, <1>4, <2>1 DEF FetchUncertain
    <2>2. CASE ~UNCHANGED al
      <3> DEFINE S == {p \in logged : Route(p) = "human_review"}
                 l == IF S = {} THEN "done" ELSE "select"
                 rec == [al[a] EXCEPT !.fetched = S, !.pc = l]
      <3>1. al' = [al EXCEPT ![a] = rec] /\ UNCHANGED logged
        BY <1>4, <2>2 DEF FetchUncertain, SelectInv
      <3>2. S \in SUBSET logged /\ l \in {"done", "select"}
        OBVIOUS
      <3> HIDE DEF S, l
      <3>3. rec \in ALRecord /\ rec.pc = l
        BY <1>1, <3>2 DEF ALRecord
      <3> HIDE DEF rec
      <3>4. QED
        BY <3>1, <3>2, <3>3, RunSelects DEF Selected
    <2>3. QED
      BY <2>1, <2>2
  <1>5. CASE SelectSamples(a)
    <2>1. PICK S \in Selections(al[a].fetched) :
             al' = [al EXCEPT ![a].selected = S, ![a].pc = "import"]
      BY <1>5 DEF SelectSamples
    <2>2. al[a].fetched \in SUBSET Predictions /\ IsFiniteSet(al[a].fetched)
      <3>1. al[a].fetched \in SUBSET logged
        BY <1>1 DEF ALRecord
      <3>2. QED
        BY <3>1, FS_Subset DEF SelectInv
    <2>3. Chosen(al[a].fetched, Min({MaxSamples, Cardinality(al[a].fetched)}), S)
      BY <2>2, SelectionsChoose
    <2>4. S \in SUBSET logged
      BY <1>1, <2>3 DEF Chosen, ALRecord
    <2> DEFINE rec == [al[a] EXCEPT !.selected = S, !.pc = "import"]
    <2>5. al' = [al EXCEPT ![a] = rec] /\ UNCHANGED logged
      BY <1>5, <2>1 DEF SelectSamples, SelectInv
    <2>6. rec \in ALRecord /\ rec.fetched = al[a].fetched /\ rec.selected = S
      BY <1>1, <2>4 DEF ALRecord
    <2> HIDE DEF rec
    <2>7. QED
      BY <2>3, <2>5, <2>6, RunSelects DEF Selected
  <1>6. CASE CreateTasks(a)
    <2>1. CASE UNCHANGED al
      BY <1>2, <1>6, <2>1 DEF CreateTasks
    <2>2. CASE ~UNCHANGED al
      <3> DEFINE rec == [al[a] EXCEPT !.pc = "done", !.fetched = {}]
      <3>1. al' = [al EXCEPT ![a] = rec] /\ UNCHANGED logged
        BY <1>6, <2>2 DEF CreateTasks, SelectInv
      <3>2. rec \in ALRecord /\ rec.pc = "done"
        BY <1>1 DEF ALRecord
      <3> HIDE DEF rec
      <3>3. QED
        BY <3>1, <3>2, RunSelects DEF Selected
    <2>3. QED
      BY <2>1, <2>2
  <1>7. QED
    BY <1>3, <1>4, <1>5, <1>6 DEF ALStep

LEMMA SelectInductive ==
    /\ Init => SelectInv
    /\ SelectInv /\ [Next]_vars => SelectInv'
  <1>1. ASSUME Init PROVE SelectInv
    <2>1. logged = {} /\ \A a \in ALRuns : al[a].pc = "idle"
      BY <1>1 DEF Init, LabellingInit
    <2>2. al \in [ALRuns -> ALRecord]
      BY <1>1 DEF Init, LabellingInit, ALRecord
    <2>3. QED
      BY <2>1, <2>2, FS_EmptySet DEF SelectInv, Selected
  <1>2. ASSUME SelectInv, [Next]_vars PROVE SelectInv'
    <2>1. CASE \E a \in ALRuns : StartAL(a) \/ ALStep(a)
      BY <1>2, <2>1, ALStepSelects
    <2>2. CASE UNCHANGED <<logged, al>>
      BY <1>2, <2>2 DEF SelectInv, ALRecord, Selected, Chosen
    <2>3. ASSUME NEW p \in Predictions, LogPrediction(p) PROVE SelectInv'
      <3>1. logged' = logged \cup {p} /\ UNCHANGED al
        BY <2>3 DEF LogPrediction
      <3>2. logged' \in SUBSET Predictions /\ IsFiniteSet(logged')
        BY <1>2, <3>1, FS_AddElement DEF SelectInv
      <3>3. ALRecord \subseteq ALRecord'
        BY <3>1 DEF ALRecord
      <3>4. al' \in [ALRuns -> ALRecord']
        BY <1>2, <3>1, <3>3 DEF SelectInv
      <3>5. QED
        BY <1>2, <3>1, <3>2, <3>4 DEF SelectInv, Selected, Chosen
    <2>4. ASSUME NEW e \in Events, Annotate(e) \/ HookStep(e)
          PROVE  UNCHANGED <<logged, al>>
      BY <2>4 DEF HookStep, Annotate, CheckCount, RequestRetraining
    <2>5. ASSUME NEW f \in Flows, StartFlow(f) \/ FlowStep(f)
          PROVE  UNCHANGED <<logged, al>>
      BY <2>5 DEF StartFlow, FlowStep, FetchData, DetectDrift, UploadReport, ReadVersions,
                  SetAlias, ReloadAfterRollback, TriggerAL, TriggerRetrainingOnDrift,
                  labellingVars
    <2>6. QED
      BY <1>2, <2>1, <2>2, <2>3, <2>4, <2>5
         DEF Next, LabellingNext, DebounceEnds, vars, labellingVars
  <1>3. QED
    BY <1>1, <1>2

(* A run imports as many as it may, and the most uncertain of what it has  *)
(* fetched, as the fallback of select_samples_for_labeling would.          *)
SelectsMostUncertain ==
    \A a \in ALRuns :
       al[a].pc = "import" =>
          /\ Cardinality(al[a].selected) = Min({MaxSamples, Cardinality(al[a].fetched)})
          /\ \A p \in al[a].selected, q \in al[a].fetched \ al[a].selected :
                Uncertainty[p] >= Uncertainty[q]

(* Why SimilarAreNotClustered fails: the nearest of the chosen is always   *)
(* the least uncertain of them, so uncertainty outweighs the distance to   *)
(* it and diversity never changes what is selected, for any number of      *)
(* predictions, any uncertainties and every weight below a half            *)
(* (UncertaintyDiversitySelector.select, whose weight is 0.3).             *)
THEOREM DiversityNeverMatters ==
    ASSUME DiversityWeight < 5
    PROVE  Spec => []SelectsMostUncertain
  <1>1. SelectInv => SelectsMostUncertain
    BY DEF SelectInv, Selected, Chosen, SelectsMostUncertain
  <1>2. QED
    BY <1>1, SelectInductive, PTL DEF Spec

-----------------------------------------------------------------------------
(* An event is annotated once, and every lost answer was a fault.          *)
Called == {e \in Events : hook[e].pc # "idle"}

HookInv ==
    /\ hook \in [Events -> HookRecord]
    /\ annotated = Cardinality(Called)
    /\ booting \in SUBSET Workers /\ debounced \in SUBSET Workers
    /\ retrainings \in SUBSET {"labelling", "drift"}
    /\ counted \in SUBSET {"ct_on_labeling", "ct_on_drift", "rollback", "al_on_medium_drift"}
    /\ lost \in Nat /\ faults \in 0..MaxFaults /\ lost <= faults

LEMMA FaultBound ==
    ASSUME faults \in 0..MaxFaults
    PROVE  /\ \A call : Fault(call) => faults' \in 0..MaxFaults /\ faults' = faults + 1
           /\ NoFault => faults' = faults
  BY DEF Fault, NoFault

(* What the webhook does not see of a step, but for what the step counts.  *)
LEMMA Unhooked ==
    ASSUME HookInv, UNCHANGED <<annotated, hook, booting, debounced>>,
           retrainings' \in {retrainings, retrainings \cup {"drift"}},
           \/ UNCHANGED counted
           \/ \E type \in {"ct_on_labeling", "ct_on_drift", "rollback", "al_on_medium_drift"} :
                 Count(type),
           \/ UNCHANGED <<lost, faults>>
           \/ /\ lost' \in {lost, lost + 1}
              /\ faults' \in 0..MaxFaults /\ faults' = faults + 1
    PROVE  HookInv'
  <1>1. Cardinality(Called)' = Cardinality(Called)
    BY DEF Called
  <1>2. /\ retrainings' \in SUBSET {"labelling", "drift"}
        /\ counted' \in SUBSET {"ct_on_labeling", "ct_on_drift", "rollback", "al_on_medium_drift"}
    BY DEF HookInv, Count
  <1>3. lost' \in Nat /\ faults' \in 0..MaxFaults /\ lost' <= faults'
    BY DEF HookInv
  <1>4. /\ hook' \in [Events -> HookRecord]
        /\ booting' \in SUBSET Workers /\ debounced' \in SUBSET Workers
    BY DEF HookInv
  <1>5. annotated' = Cardinality(Called)'
    BY <1>1 DEF HookInv
  <1>6. QED
    BY <1>2, <1>3, <1>4, <1>5 DEF HookInv, HookRecord

LEMMA LoopUnhooked ==
    ASSUME HookInv,
           \/ \E p \in Predictions : LogPrediction(p)
           \/ \E a \in ALRuns : StartAL(a) \/ ALStep(a)
    PROVE  HookInv'
  <1>1. faults \in 0..MaxFaults
    BY DEF HookInv
  <1>2. CASE \E p \in Predictions : LogPrediction(p)
    BY <1>2, Unhooked DEF LogPrediction
  <1>3. ASSUME NEW a \in ALRuns, StartAL(a) \/ FetchUncertain(a) \/ SelectSamples(a) PROVE HookInv'
    BY <1>1, <1>3, FaultBound, Unhooked DEF StartAL, FetchUncertain, SelectSamples
  <1>4. ASSUME NEW a \in ALRuns, CreateTasks(a) PROVE HookInv'
    BY <1>1, <1>4, FaultBound, Unhooked DEF CreateTasks
  <1>5. QED
    BY <1>2, <1>3, <1>4 DEF ALStep

LEMMA FlowUnhooked ==
    ASSUME HookInv, NEW f \in Flows, StartFlow(f) \/ FlowStep(f)
    PROVE  HookInv'
  <1>1. faults \in 0..MaxFaults
    BY DEF HookInv
  <1> USE <1>1, FaultBound, Unhooked
  <1>2. CASE StartFlow(f)
    BY <1>2 DEF StartFlow, labellingVars
  <1>3. CASE FetchData(f) \/ UploadReport(f)
    BY <1>3 DEF FetchData, UploadReport
  <1>4. CASE DetectDrift(f)
    BY <1>4 DEF DetectDrift
  <1>5. CASE ReadVersions(f)
    BY <1>5 DEF ReadVersions
  <1>6. CASE SetAlias(f)
    BY <1>6 DEF SetAlias
  <1>7. CASE ReloadAfterRollback(f)
    BY <1>7 DEF ReloadAfterRollback
  <1>8. CASE TriggerAL(f)
    BY <1>8 DEF TriggerAL
  <1>9. CASE TriggerRetrainingOnDrift(f)
    BY <1>9 DEF TriggerRetrainingOnDrift
  <1>10. QED
    BY <1>2, <1>3, <1>4, <1>5, <1>6, <1>7, <1>8, <1>9 DEF FlowStep

(* A handler's step from one place to another.                             *)
LEMMA HookTo ==
    ASSUME HookInv, NEW e \in Events, NEW rec \in HookRecord, rec.pc # "idle",
           hook' = [hook EXCEPT ![e] = rec]
    PROVE  /\ hook' \in [Events -> HookRecord]
           /\ hook[e].pc # "idle" => Called' = Called
           /\ hook[e].pc = "idle" => Called' = Called \cup {e} /\ e \notin Called
  <1>1. \A d \in Events : hook'[d] = IF d = e THEN rec ELSE hook[d]
    BY DEF HookInv
  <1>2. hook' \in [Events -> HookRecord]
    BY DEF HookInv
  <1>3. QED
    BY <1>1, <1>2 DEF Called

LEMMA HookInductive ==
    /\ Init => HookInv
    /\ HookInv /\ [Next]_vars => HookInv'
  <1>1. ASSUME Init PROVE HookInv
    <2>1. hook \in [Events -> HookRecord]
      BY <1>1 DEF Init, LabellingInit, HookRecord
    <2>2. Called = {}
      BY <1>1 DEF Init, LabellingInit, Called
    <2>3. Cardinality(Called) = 0
      BY <2>2, FS_EmptySet
    <2>4. QED
      BY <1>1, <2>1, <2>3 DEF Init, LabellingInit, HookInv
  <1>2. ASSUME HookInv, [Next]_vars PROVE HookInv'
    <2>0. faults \in 0..MaxFaults /\ IsFiniteSet(Called)
      BY <1>2, FS_Subset DEF HookInv, Called
    <2>1. ASSUME NEW e \in Events, Annotate(e) PROVE HookInv'
      <3>1. PICK l \in {"check", "lost"} :
               /\ hook' = [hook EXCEPT ![e].pc = l]
               /\ NoFault \/ Fault("deliver")
        BY <2>1 DEF Annotate
      <3> DEFINE rec == [hook[e] EXCEPT !.pc = l]
      <3>2. hook' = [hook EXCEPT ![e] = rec]
        BY <1>2, <3>1 DEF HookInv
      <3>3. rec \in HookRecord /\ rec.pc = l
        BY <1>2 DEF HookInv, HookRecord
      <3> HIDE DEF rec
      <3>4. /\ hook' \in [Events -> HookRecord]
            /\ Called' = Called \cup {e} /\ e \notin Called
        BY <1>2, <2>1, <3>2, <3>3, HookTo DEF Annotate
      <3>5. Cardinality(Called') = Cardinality(Called) + 1
        BY <2>0, <3>4, FS_AddElement
      <3>6. faults' \in 0..MaxFaults /\ faults' >= faults
        BY <2>0, <3>1, FaultBound
      <3>7. annotated' = annotated + 1 /\ UNCHANGED <<booting, debounced, retrainings, counted, lost>>
        BY <2>1 DEF Annotate
      <3>8. QED
        BY <1>2, <3>4, <3>5, <3>6, <3>7 DEF HookInv
    <2>2. ASSUME NEW e \in Events, CheckCount(e) PROVE HookInv'
      <3>1. PICK rec \in HookRecord :
               /\ rec.pc # "idle" /\ hook' = [hook EXCEPT ![e] = rec]
               /\ faults' \in 0..MaxFaults /\ faults' >= faults
               /\ counted' \in {counted, counted \cup {"ct_on_labeling"}}
        <4>1. PICK l \in {"request", "done", "early", "failed"}, v \in SUBSET Workers :
                 /\ hook' = [hook EXCEPT ![e] = [pc |-> l, worker |-> v]]
                 /\ \/ UNCHANGED <<counted, faults>>
                    \/ Fault("settings") /\ UNCHANGED counted
                    \/ Fault("count") /\ Count("ct_on_labeling")
          BY <2>2 DEF CheckCount
        <4>2. [pc |-> l, worker |-> v] \in HookRecord
          BY DEF HookRecord
        <4>3. /\ faults' \in 0..MaxFaults /\ faults' >= faults
              /\ counted' \in {counted, counted \cup {"ct_on_labeling"}}
          BY <2>0, <4>1, FaultBound DEF Count
        <4>4. QED
          BY <4>1, <4>2, <4>3
      <3>2. hook[e].pc = "check" /\ UNCHANGED <<annotated, booting, debounced, retrainings, lost>>
        BY <2>2 DEF CheckCount
      <3>3. hook' \in [Events -> HookRecord] /\ Called' = Called
        BY <1>2, <3>1, <3>2, HookTo
      <3>4. QED
        BY <1>2, <3>1, <3>2, <3>3 DEF HookInv
    <2>3. ASSUME NEW e \in Events, RequestRetraining(e) PROVE HookInv'
      <3> DEFINE rec == [pc |-> "done", worker |-> {}]
      <3>1. rec \in HookRecord /\ rec.pc # "idle" /\ hook' = [hook EXCEPT ![e] = rec]
        BY <2>3 DEF RequestRetraining, HookRecord
      <3> HIDE DEF rec
      <3>2. hook[e].pc = "request" /\ UNCHANGED <<annotated, booting, lost>>
        BY <2>3 DEF RequestRetraining
      <3>3. hook' \in [Events -> HookRecord] /\ Called' = Called
        BY <1>2, <3>1, <3>2, HookTo
      <3>4. /\ retrainings' \in {retrainings, retrainings \cup {"labelling"}}
            /\ debounced' \in {debounced, debounced \cup hook[e].worker}
            /\ counted' \in {counted, counted \cup {"ct_on_labeling"}}
            /\ faults' \in 0..MaxFaults /\ faults' >= faults
        BY <2>0, <2>3, FaultBound DEF RequestRetraining, Count
      <3>5. hook[e].worker \in SUBSET Workers
        BY <1>2 DEF HookInv, HookRecord
      <3>6. /\ booting' \in SUBSET Workers /\ debounced' \in SUBSET Workers
            /\ retrainings' \in SUBSET {"labelling", "drift"}
        BY <1>2, <3>2, <3>4, <3>5 DEF HookInv
      <3>7. counted' \in SUBSET {"ct_on_labeling", "ct_on_drift", "rollback",
                                 "al_on_medium_drift"}
        BY <1>2, <3>4 DEF HookInv
      <3>8. annotated' = Cardinality(Called')
        BY <1>2, <3>2, <3>3 DEF HookInv
      <3>9. lost' \in Nat /\ faults' \in 0..MaxFaults /\ lost' <= faults'
        BY <1>2, <2>0, <3>2, <3>4 DEF HookInv
      <3>10. QED
        BY <3>3, <3>6, <3>7, <3>8, <3>9 DEF HookInv
    <2>4. ASSUME NEW w \in Workers, DebounceEnds(w) PROVE HookInv'
      <3>1. /\ UNCHANGED <<annotated, hook, retrainings, counted>>
            /\ UNCHANGED <<lost, faults>>
            /\ booting' \subseteq booting /\ debounced' \subseteq debounced
        BY <2>4 DEF DebounceEnds
      <3>2. Called' = Called
        BY <3>1 DEF Called
      <3>3. QED
        BY <1>2, <3>1, <3>2 DEF HookInv, HookRecord
    <2>5. CASE UNCHANGED vars
      BY <1>2, <2>5 DEF vars, labellingVars, HookInv, Called, HookRecord
    <2>6. QED
      BY <1>2, <2>1, <2>2, <2>3, <2>4, <2>5, LoopUnhooked, FlowUnhooked
         DEF Next, LabellingNext, HookStep
  <1>3. QED
    BY <1>1, <1>2

-----------------------------------------------------------------------------
(* The drift score is a percentage of the columns.                         *)
LEMMA ShareIsPercent ==
    ASSUME NEW columns \in (SUBSET Columns) \ {{}}, NEW drifted \in SUBSET columns
    PROVE  Share(drifted, columns) \in 0..100
  <1> DEFINE d == Cardinality(drifted)
             c == Cardinality(columns)
             q == (100 * d) \div c
  <1>1. IsFiniteSet(columns)
    BY FS_Subset
  <1>2. c \in Nat /\ c # 0
    BY <1>1, FS_CardinalityType, FS_EmptySet
  <1>3. d \in Nat /\ d <= c
    BY <1>1, FS_Subset, FS_CardinalityType
  <1> HIDE DEF d, c
  <1>4. q \in Int /\ c * q <= 100 * d /\ 100 * d < c * q + c
    BY <1>2, <1>3
  <1> HIDE DEF q
  <1>5. q <= 100
    <2>1. SUFFICES ASSUME q >= 101 PROVE FALSE
      BY <1>4
    <2>2. c * q >= c * 101
      BY <1>2, <1>4, <2>1
    <2>3. QED
      BY <1>2, <1>3, <1>4, <2>2
  <1>6. q >= 0
    <2>1. SUFFICES ASSUME q + 1 <= 0 PROVE FALSE
      BY <1>4
    <2>2. c * (q + 1) <= 0
      BY <1>2, <1>4, <2>1
    <2>3. c * (q + 1) = c * q + c
      BY <1>2, <1>4
    <2>4. QED
      BY <1>2, <1>3, <1>4, <2>2, <2>3
  <1>7. QED
    BY <1>4, <1>5, <1>6 DEF q, d, c, Share

FlowType ==
    [pc : {"idle", "fetch", "detect", "report", "rollback",
           "alias", "reload", "al", "retrain"} \cup Ended,
     score : 0..100,
     responses : SUBSET {"rolledBack", "nothingBefore", "counted",
                         "al", "retraining", "retrainingCounted"}]

FlowInv == flow \in [Flows -> FlowType]

LEMMA GotoType ==
    ASSUME FlowInv, NEW f \in Flows, NEW l, Goto(f, l),
           l \in {"fetch", "detect", "report", "rollback", "alias", "reload", "al",
                  "retrain"} \cup Ended
    PROVE  FlowInv'
  BY DEF Goto, FlowInv, FlowType, Ended

LEMMA RespondType ==
    ASSUME FlowInv, NEW f \in Flows, NEW l, NEW what, Respond(f, l, what),
           l \in {"reload", "retrain", "completed"},
           what \in {"rolledBack", "nothingBefore", "counted", "al", "retraining",
                     "retrainingCounted"}
    PROVE  FlowInv'
  <1> DEFINE R == flow[f].responses \cup {what}
             rec == [flow[f] EXCEPT !.pc = l, !.responses = R]
  <1>1. flow' = [flow EXCEPT ![f] = rec]
    BY DEF Respond, FlowInv
  <1>2. flow[f] \in FlowType
    BY DEF FlowInv
  <1>3. R \in SUBSET {"rolledBack", "nothingBefore", "counted", "al", "retraining",
                     "retrainingCounted"}
    BY <1>2 DEF FlowType
  <1> HIDE DEF R
  <1>4. rec \in FlowType
    BY <1>2, <1>3 DEF FlowType, Ended
  <1> HIDE DEF rec
  <1>5. QED
    BY <1>1, <1>4 DEF FlowInv, FlowType

LEMMA FlowStepType ==
    ASSUME FlowInv, NEW f \in Flows, StartFlow(f) \/ FlowStep(f)
    PROVE  FlowInv'
  <1> USE GotoType, RespondType DEF Ended
  <1>1. ASSUME UNCHANGED flow PROVE FlowInv'
    BY <1>1 DEF FlowInv
  <1>2. CASE StartFlow(f)
    BY <1>2 DEF StartFlow
  <1>3. CASE FetchData(f)
    BY <1>1, <1>3 DEF FetchData
  <1>4. CASE DetectDrift(f)
    <2>1. CASE Goto(f, "failed")
      BY <2>1
    <2>2. CASE ~Goto(f, "failed")
      <3>1. PICK columns \in (SUBSET Columns) \ {{}} : \E drifted \in SUBSET columns :
                  LET score == Share(drifted, columns)
                  IN  flow' = [flow EXCEPT ![f].score = score,
                                           ![f].pc = IF ~GatePasses(score) /\ FailOnDrift
                                                     THEN "failed" ELSE "report"]
        BY <1>4, <2>2 DEF DetectDrift
      <3>2. PICK drifted \in SUBSET columns :
               flow' = [flow EXCEPT ![f].score = Share(drifted, columns),
                                    ![f].pc = IF ~GatePasses(Share(drifted, columns))
                                                    /\ FailOnDrift
                                              THEN "failed" ELSE "report"]
        BY <3>1
      <3>3. Share(drifted, columns) \in 0..100
        BY ShareIsPercent
      <3> DEFINE s == Share(drifted, columns)
                 l == IF ~GatePasses(s) /\ FailOnDrift THEN "failed" ELSE "report"
                 rec == [flow[f] EXCEPT !.score = s, !.pc = l]
      <3>4. flow' = [flow EXCEPT ![f] = rec]
        BY <3>2 DEF FlowInv
      <3>5. l \in {"failed", "report"} /\ s \in 0..100
        BY <3>3
      <3> HIDE DEF s, l
      <3>6. flow[f] \in FlowType
        BY DEF FlowInv
      <3>7. rec \in FlowType
        BY <3>5, <3>6 DEF FlowType
      <3> HIDE DEF rec
      <3>8. QED
        BY <3>4, <3>7 DEF FlowInv, FlowType
    <2>3. QED
      BY <2>1, <2>2
  <1>5. CASE UploadReport(f)
    <2>1. Severity(flow[f].score) \in {"low", "medium", "high"}
      BY DEF Severity
    <2>2. PICK l \in {"completed", "al", "rollback", "failed"} : Goto(f, l)
      BY <1>5, <2>1 DEF UploadReport
    <2>3. QED
      BY <2>2
  <1>6. AfterFirst \in {"retrain", "completed"}
    BY DEF AfterFirst
  <1>7. CASE ReadVersions(f)
    BY <1>6, <1>7 DEF ReadVersions
  <1>8. CASE SetAlias(f)
    BY <1>6, <1>8 DEF SetAlias
  <1>9. CASE ReloadAfterRollback(f)
    BY <1>6, <1>9 DEF ReloadAfterRollback
  <1>10. CASE TriggerAL(f)
    BY <1>6, <1>10 DEF TriggerAL
  <1>11. CASE TriggerRetrainingOnDrift(f)
    BY <1>11 DEF TriggerRetrainingOnDrift
  <1>12. QED
    BY <1>2, <1>3, <1>4, <1>5, <1>7, <1>8, <1>9, <1>10, <1>11 DEF FlowStep

LEMMA FlowTypeInductive ==
    /\ Init => FlowInv
    /\ FlowInv /\ [Next]_vars => FlowInv'
  <1>1. Init => FlowInv
    BY DEF Init, FlowInv, FlowType
  <1>2. ASSUME FlowInv, [Next]_vars PROVE FlowInv'
    <2>1. CASE UNCHANGED flow
      BY <1>2, <2>1 DEF FlowInv
    <2>2. QED
      BY <1>2, <2>1, FlowStepType DEF Next, vars
  <1>3. QED
    BY <1>1, <1>2

(* Every variable of the loop and of the flow stays within its type: no    *)
(* more tasks than runs and lost answers, no more annotations than calls,  *)
(* and drift scores that are percentages (LabellingLoop, monitoring_flow). *)
THEOREM TypeCorrect == Spec => []TypeOK
  <1>1. ASSUME SelectInv, HookInv, FlowInv, TaskInv PROVE TypeOK
    <2>1. annotated \in 0..Cardinality(Events)
      <3>1. Called \in SUBSET Events
        BY DEF Called
      <3>2. Cardinality(Called) \in Nat /\ Cardinality(Events) \in Nat
               /\ Cardinality(Called) <= Cardinality(Events)
        BY <3>1, FS_Subset, FS_CardinalityType
      <3>3. QED
        BY <1>1, <3>2 DEF HookInv
    <2>2. tasks \in [Predictions -> 0..(Cardinality(ALRuns) + MaxFaults)]
      <3>1. ASSUME NEW p \in Predictions
            PROVE  tasks[p] \in 0..(Cardinality(ALRuns) + MaxFaults)
        <4>1. Selecting(p) \in SUBSET ALRuns
          BY DEF Selecting
        <4>2. /\ Cardinality(Selecting(p)) \in Nat /\ Cardinality(ALRuns) \in Nat
              /\ Cardinality(Selecting(p)) <= Cardinality(ALRuns)
          BY <4>1, FS_Subset, FS_CardinalityType
        <4>3. tasks[p] \in Nat /\ tasks[p] - Cardinality(Selecting(p)) \in 0..lost
          BY <1>1 DEF TaskInv, TasksAreAccountedFor
        <4>4. lost \in Nat /\ lost <= MaxFaults
          BY <1>1 DEF HookInv
        <4>5. QED
          BY <4>2, <4>3, <4>4
      <3>2. QED
        BY <1>1, <3>1 DEF TaskInv
    <2>3. {lost, faults} \subseteq 0..MaxFaults
      BY <1>1 DEF HookInv
    <2>4. LabellingTypeOK
      BY <1>1, <2>1, <2>2, <2>3
         DEF LabellingTypeOK, SelectInv, ALRecord, HookInv, HookRecord
    <2>5. QED
      BY <1>1, <2>4 DEF TypeOK, FlowInv, FlowType
  <1>2. QED
    BY <1>1, SelectInductive, HookInductive, FlowTypeInductive, TasksInductive,
       PTL DEF Spec

=============================================================================
