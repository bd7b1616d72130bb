------------------------ MODULE MCContinuousTraining ------------------------
(***************************************************************************)
(* Instances of ContinuousTraining for TLC: percentages stand for the      *)
(* accuracies and the loss gaps (default thresholds 0.7 and 0.15).         *)
(***************************************************************************)
EXTENDS ContinuousTraining, TLC

MCAccuracies == {60, 70, 80}
MCGaps == {10, 20}

(* Every fault that leaves a run's own version under @challenger. *)
HarmlessFaults == {"g3", "promote", "rollback", "crash"}
RetriesAndCrashes == {"promote", "crash"}
AllCalls == Calls
NoFaults == {}

RunSymmetry == Permutations(Runs)

=============================================================================
