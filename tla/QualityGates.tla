---------------------------- MODULE QualityGates ----------------------------
(***************************************************************************)
(* The pure decisions of the quality gates: what a gate answers for given  *)
(* measurements.  Rates, accuracies, losses and latencies are integers in  *)
(* a unit fine enough for the configuration (hundredths, milliseconds);    *)
(* NoMetrics stands for a Python None.                                     *)
(***************************************************************************)
EXTENDS Integers

CONSTANT NoMetrics     \* the absence of a measurement

-----------------------------------------------------------------------------
(* G2, check_training_quality: m.acc is best_val_accuracy, m.gap is        *)
(* val_loss - train_loss of the last epoch (training always reports both). *)
PassesQuality(m, minValAccuracy, maxOverfitGap) ==
    /\ m.acc >= minValAccuracy
    /\ m.gap <= maxOverfitGap

(* G3, check_champion_gate: a champion whose run lacks the metric is       *)
(* beaten by anything, otherwise the challenger must exceed it by more     *)
(* than the margin.                                                        *)
BeatsChampion(challenger, champion, margin) ==
    champion # NoMetrics => challenger.acc > champion.acc + margin

(* G4, check_canary_gate: each side has an error rate err (per mille) and  *)
(* a P99 latency lat (ms), either of them possibly unknown.  Without       *)
(* canary data the check passes; then the ceiling on the error rate, and   *)
(* both ratios (in percent) where the champion's value is known and        *)
(* positive.                                                               *)
WithinRatio(canary, champion, percent) ==
    champion # NoMetrics => champion = 0 \/ canary * 100 <= champion * percent

PassesCanary(canary, champion, ceiling, errPercent, latPercent) ==
    canary.err # NoMetrics /\ canary.lat # NoMetrics =>
        /\ canary.err <= ceiling
        /\ WithinRatio(canary.err, champion.err, errPercent)
        /\ WithinRatio(canary.lat, champion.lat, latPercent)

=============================================================================
