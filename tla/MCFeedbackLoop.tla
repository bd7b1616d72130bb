---------------------------- MODULE MCFeedbackLoop ----------------------------
(***************************************************************************)
(* An instance of MonitoringFlow, and of the LabellingLoop in it, for TLC: *)
(* three predictions for review and one that is not, two of which may be   *)
(* selected, two workers; and a pool of five for review, two of them very  *)
(* similar and the most uncertain.                                         *)
(***************************************************************************)
EXTENDS MonitoringFlow, TLC

MCPredictions == {"p1", "p2", "p3", "p4"}
MCConfidence == [p \in MCPredictions |-> IF p = "p4" THEN 97 ELSE 60]
MCUncertainty ==
    [p \in MCPredictions |-> CASE p = "p1" -> 90 [] p = "p2" -> 85 [] p = "p3" -> 50
                               [] p = "p4" -> 10]

MCPool == {"p1", "p2", "p3", "p4", "p5"}
MCPoolConfidence == [p \in MCPool |-> 60]
MCPoolUncertainty ==
    [p \in MCPool |-> CASE p = "p1" -> 90 [] p = "p2" -> 88 [] p = "p3" -> 75
                        [] p = "p4" -> 60 [] p = "p5" -> 50]

AllCalls == Calls

LoopSymmetry ==
    Permutations(ALRuns) \cup Permutations(Events) \cup Permutations(Workers)

=============================================================================
