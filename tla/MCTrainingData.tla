---------------------------- MODULE MCTrainingData ----------------------------
(***************************************************************************)
(* An instance of TrainingData for TLC: three records, one of them stored  *)
(* late and one that may have no image, and an annotation, in two classes. *)
(***************************************************************************)
EXTENDS TrainingData, TLC

CONSTANTS r1, r2

MCRecords == {"s1", "s2", "s3"}
MCEarly == {"s1", "s3"}
MCLabels == {"l1"}
MCClassOf == [x \in MCRecords \cup MCLabels |->
                 IF x = "s2" THEN "dog" ELSE "cat"]

AllCalls == Calls

RunSymmetry == Permutations({r1, r2})

=============================================================================
