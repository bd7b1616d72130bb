------------------------- MODULE MCCanaryDeployment -------------------------
(***************************************************************************)
(* Instances of CanaryDeployment for TLC.  The values lie on both sides of *)
(* the thresholds: an error rate below, at and above the ceiling of 50 per *)
(* mille, and pairs inside and outside the ratios of 150% and 130%.        *)
(***************************************************************************)
EXTENDS CanaryDeployment

MCErrorRates == {0, 20, 50, 90}
MCLatencies == {100, 200}
MCFewRates == {0, 90}
MCFewLatencies == {100}

(* The API of the repository refuses a request without a body; the safety  *)
(* properties are checked for one that takes it too.                       *)
Refusal == {"refused"}
AnyAnswer == {"accepted", "refused"}

AllCalls == Calls
NoFaults == {}

=============================================================================
