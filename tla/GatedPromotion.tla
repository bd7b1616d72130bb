--------------------------- MODULE GatedPromotion ---------------------------
(***************************************************************************)
(* What the quality gates promise of the champion model, with no registry, *)
(* aliases or flow runs: candidates are measured, and the title of         *)
(* champion passes only to a measured candidate that meets the floor of G2 *)
(* and beats the current holder as G3 demands.                             *)
(***************************************************************************)
EXTENDS QualityGates

CONSTANTS Candidates, Seed, Metrics, MinValAccuracy, MaxOverfitGap,
          ChampionMargin

VARIABLES measured,   \* candidate -> its metrics, NoMetrics before training
          holder      \* the candidate that is champion

vars == <<measured, holder>>

Init ==
    /\ measured = [c \in Candidates \cup {Seed} |-> NoMetrics]
    /\ holder = Seed

Measure(c) ==
    /\ measured[c] = NoMetrics
    /\ \E m \in Metrics : measured' = [measured EXCEPT ![c] = m]
    /\ UNCHANGED holder

Promote(c) ==
    /\ measured[c] # NoMetrics
    /\ PassesQuality(measured[c], MinValAccuracy, MaxOverfitGap)
    /\ BeatsChampion(measured[c], measured[holder], ChampionMargin)
    /\ holder' = c
    /\ UNCHANGED measured

Next == \E c \in Candidates : Measure(c) \/ Promote(c)

Spec == Init /\ [][Next]_vars

=============================================================================
