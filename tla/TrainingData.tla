----------------------------- MODULE TrainingData -----------------------------
(***************************************************************************)
(* What continuous-training runs train on.  A run takes a round number,    *)
(* merges the completed annotations with what the accumulators have stored *)
(* into a directory all runs share, has the images judged, records the     *)
(* data with DVC and trains; meanwhile annotators, accumulators and the    *)
(* accumulation flow go on.  What becomes of the model is                  *)
(* ContinuousTraining's.                                                   *)
(***************************************************************************)
EXTENDS DataAccumulation

CONSTANTS
    Runs,
    Labels,         \* annotations that may be completed
    Unhealthy,      \* the images CleanVision finds fault with
    Unusable,       \* annotations without an image or a class, records without one
    TrainPercent,   \* train_val_split, in percent
    Overlap,        \* bound: whether two runs may be under way at once
    NoCause,        \* a run no accumulation asked for
    Mixed           \* what is left when writing fails or two runs write

Items == Records \cup Labels
Directories == [train : SUBSET Items, val : SUBSET Items]

ASSUME TrainingDataAssumption ==
    /\ IsFiniteSet(Runs)
    /\ IsFiniteSet(Labels) /\ Records \cap Labels = {}
    /\ Unhealthy \subseteq Items
    /\ Unusable \subseteq Items
    /\ ClassOf \in [Items -> Classes]
    /\ TrainPercent \in 0..100
    /\ Overlap \in BOOLEAN
    /\ NoCause \notin Accumulations
    /\ Mixed \notin Items \cup Directories

(* With two faults the two retries of resolve-round-number suffice.  No    *)
(* theorem uses this bound.                                                *)
ASSUME RoundRetriesSuffice == MaxFaults <= 2

(* A run is a record: its pc and its round, written or about to be; what   *)
(* it has listed and merged, the sources that are down, whether it retries *)
(* the integration; and, as history, the accumulation that caused it, what *)
(* was available when it started, whether it met a fault or a vanished     *)
(* object, whether another run touched its directory, and whether it was   *)
(* judged by a cached verdict.                                             *)
VARIABLES
    labels,      \* the completed annotations
    counter,     \* the round in S3, 0 when there is none
    dir,         \* the merged directory
    verdict,     \* the cached result of validate_images
    tracked,     \* the data the .dvc file stands for
    run,
    roundsBroken \* history: the counter was raced for, or unreadable

trainingDataVars == <<labels, counter, dir, verdict, tracked, run, roundsBroken>>
vars == <<accumulationVars, trainingDataVars>>

-----------------------------------------------------------------------------
Ended == {"skipped", "failed", "refused", "trained"}
InDirectory == {"human", "list", "read", "write", "judge", "version", "train"}

Fresh == [pc |-> "idle", round |-> 0, listed |-> {}, merged |-> {}, down |-> {},
          retried |-> FALSE, cause |-> NoCause, available |-> {},
          troubled |-> FALSE, disturbed |-> FALSE, stale |-> FALSE]

Become(r, rec) == run' = [run EXCEPT ![r] = rec]
Goto(r, l) == run' = [run EXCEPT ![r].pc = l]
Over(r, l) == [Fresh EXCEPT !.pc = l, !.round = run[r].round]

(* As r becomes rec, the runs whose directory it writes to suffer.         *)
Disturb(r, rec) ==
    run' = [q \in Runs |->
               IF q = r THEN rec
               ELSE [run[q] EXCEPT !.disturbed = @ \/ run[q].pc \in InDirectory]]

(* Mutant: no at-least-one on the training side.                           *)
TrainCountFloor(n) ==
    LET idx == (n * TrainPercent) \div 100
    IN  IF idx >= n /\ n > 1 THEN n - 1 ELSE idx

(* The stratified split: split_idx, and the one moved back when none is    *)
(* left to validate with.                                                  *)
TrainCount(n) ==
    LET idx == Max({1, (n * TrainPercent) \div 100})
    IN  IF idx >= n /\ n > 1 THEN n - 1 ELSE idx

(* The seeded shuffle is some order of what was collected.                 *)
Splits(S) ==
    {d \in [train : SUBSET S, val : SUBSET S] :
        /\ d.val = S \ d.train
        /\ \A c \in {ClassOf[x] : x \in S} :
              Cardinality(OfClass(d.train, c))
                 = TrainCount(Cardinality(OfClass(S, c)))}

Empty == [train |-> {}, val |-> {}]
Content(d) == IF d = Mixed THEN {Mixed} ELSE d.train \cup d.val

(* validate_image_dataset, of the training side, against min_health_score  *)
(* 0.5; no images at all score 0.                                          *)
Healthy(d) ==
    /\ d # Mixed
    /\ d.train # {}
    /\ 2 * Cardinality(d.train \cap Unhealthy) <= Cardinality(d.train)

(* validate_images is cached for an hour by the directory's name.          *)
Verdicts ==
    IF verdict # "none" THEN {verdict}
    ELSE IF dir = Mixed THEN {"healthy", "unhealthy"}
    ELSE {IF Healthy(dir) THEN "healthy" ELSE "unhealthy"}

(* ImageFolder refuses a class directory without images, and the split     *)
(* makes both directories of every class it meets.                         *)
Loadable(d) ==
    /\ d # Mixed
    /\ d.train # {}
    /\ {ClassOf[x] : x \in d.train} = {ClassOf[x] : x \in d.val}

-----------------------------------------------------------------------------
Init ==
    /\ AccumulationInit
    /\ labels = {}
    /\ counter = 0
    /\ dir = Empty
    /\ verdict = "none"
    /\ tracked = {}
    /\ run = [r \in Runs |-> Fresh]
    /\ roundsBroken = FALSE

CompleteAnnotation(x) ==
    /\ x \notin labels
    /\ labels' = labels \cup {x}
    /\ UNCHANGED <<accumulationVars, counter, dir, verdict, tracked, run, roundsBroken>>

(* A run an accumulation has asked for, or one from the webhook, the       *)
(* monitoring flow or by hand.  Bound: runs overlap only where no call is  *)
(* still to fail.                                                          *)
Start(r) ==
    /\ run[r].pc = "idle"
    /\ \/ Overlap /\ faults = MaxFaults
       \/ \A q \in Runs : run[q].pc \in Ended \cup {"idle"}
    /\ \E a \in requests \cup {NoCause} :
          /\ requests' = requests \ {a}
          /\ Become(r, [Fresh EXCEPT !.pc = "readRound", !.cause = a,
                                     !.available = labels \cup bucket])
    /\ UNCHANGED <<bucket, stored, step, fetched, accepted, faults, labels,
                   counter, dir, verdict, tracked, roundsBroken>>

(* resolve_round_number, of a run without an explicit round; whatever      *)
(* fails in reading counts as no round yet.                                *)
ReadRound(r) ==
    /\ run[r].pc = "readRound"
    /\ \E base \in {counter, 0} :
          /\ Become(r, [run[r] EXCEPT !.pc = "writeRound", !.round = base + 1])
          /\ \/ /\ base = counter
                /\ roundsBroken' = (roundsBroken
                                     \/ \E q \in Runs : run[q].pc = "writeRound")
                /\ NoFault
             \/ /\ base # counter
                /\ roundsBroken' = TRUE
                /\ Fault("readRound")
    /\ UNCHANGED <<bucket, stored, step, fetched, accepted, requests, labels,
                   counter, dir, verdict, tracked>>

(* Mutant: the round written is incremented once more.                     *)
WriteRoundNext(r) ==
    /\ run[r].pc = "writeRound"
    /\ counter' = run[r].round + 1
    /\ Goto(r, "clean")
    /\ UNCHANGED <<accumulationVars, labels, dir, verdict, tracked, roundsBroken>>

(* Mutant: the round read is written back.                                 *)
WriteRoundRead(r) ==
    /\ run[r].pc = "writeRound"
    /\ counter' = run[r].round - 1
    /\ Goto(r, "clean")
    /\ UNCHANGED <<accumulationVars, labels, dir, verdict, tracked, roundsBroken>>

(* A failed write, whether or not it has taken effect, starts the task     *)
(* over.                                                                   *)
WriteRound(r) ==
    /\ run[r].pc = "writeRound"
    /\ \/ counter' = run[r].round /\ Goto(r, "clean") /\ NoFault
       \/ /\ counter' \in {counter, run[r].round}
          /\ Goto(r, "readRound")
          /\ Fault("writeRound")
    /\ UNCHANGED <<bucket, stored, step, fetched, accepted, requests, labels,
                   dir, verdict, tracked, roundsBroken>>

(* Mutant: the directories are made if they do not exist.                  *)
KeepDir(r) ==
    /\ run[r].pc = "clean"
    /\ Disturb(r, [run[r] EXCEPT !.pc = "human", !.merged = {}, !.down = {},
                                 !.disturbed = FALSE])
    /\ UNCHANGED <<accumulationVars, labels, counter, dir, verdict, tracked, roundsBroken>>

(* integrate_training_data begins by removing what is there.               *)
CleanDir(r) ==
    /\ run[r].pc = "clean"
    /\ dir' = Empty
    /\ Disturb(r, [run[r] EXCEPT !.pc = "human", !.merged = {}, !.down = {},
                                 !.disturbed = FALSE])
    /\ UNCHANGED <<accumulationVars, labels, counter, verdict, tracked, roundsBroken>>

(* The human path: an export that fails fails the source, an image that    *)
(* cannot be downloaded is passed over, and so is, without a word, an      *)
(* annotation whose image or class cannot be made out.                     *)
CollectHuman(r) ==
    LET usable == labels \ Unusable
        after == [run[r] EXCEPT !.pc = "list"]
        amiss == [after EXCEPT !.troubled = TRUE]
    IN  /\ run[r].pc = "human"
        /\ \/ Become(r, [after EXCEPT !.merged = usable]) /\ NoFault
           \/ Become(r, [amiss EXCEPT !.down = {"human"}]) /\ Fault("export")
           \/ /\ \E x \in usable : Become(r, [amiss EXCEPT !.merged = usable \ {x}])
              /\ Fault("image")
        /\ UNCHANGED <<bucket, stored, step, fetched, accepted, requests, labels,
                       counter, dir, verdict, tracked, roundsBroken>>

ListPseudo(r) ==
    /\ run[r].pc = "list"
    /\ Become(r, [run[r] EXCEPT !.pc = "read", !.listed = bucket])
    /\ UNCHANGED <<accumulationVars, labels, counter, dir, verdict, tracked, roundsBroken>>

(* Mutant: the second path starts a list of its own.                       *)
ReadPseudoOnly(r) ==
    /\ run[r].pc = "read"
    /\ Become(r, [run[r] EXCEPT !.pc = "write", !.listed = {},
                                !.merged = (run[r].listed \cap bucket) \ Unusable])
    /\ UNCHANGED <<accumulationVars, labels, counter, dir, verdict, tracked, roundsBroken>>

(* The pseudo path, object by object.  One the accumulation flow has       *)
(* deleted since the listing, or a failed call, ends it where it is and    *)
(* fails the source; what was read before stays.  A record without an      *)
(* image is read and passed over.                                          *)
ReadPseudo(r) ==
    /\ run[r].pc = "read"
    /\ \E got \in SUBSET (run[r].listed \cap bucket) :
          LET after == [run[r] EXCEPT !.pc = "write", !.listed = {},
                                      !.merged = @ \cup (got \ Unusable)]
              amiss == [after EXCEPT !.troubled = TRUE]
              ended == [amiss EXCEPT !.down = @ \cup {"pseudo"}]
          IN  \/ got = run[r].listed /\ Become(r, after) /\ NoFault
              \/ ~(run[r].listed \subseteq bucket) /\ Become(r, ended) /\ NoFault
              \/ Become(r, ended) /\ Fault("read")
              \/ /\ \E x \in run[r].listed \ Unusable : got = run[r].listed \ {x}
                 /\ Become(r, amiss)
                 /\ Fault("image")
    /\ UNCHANGED <<bucket, stored, step, fetched, accepted, requests, labels,
                   counter, dir, verdict, tracked, roundsBroken>>

(* A failed attempt is made again, once.                                   *)
Retrying(r) ==
    IF run[r].retried THEN Over(r, "failed")
    ELSE [run[r] EXCEPT !.pc = "clean", !.retried = TRUE]

BothSourcesFailed(r) ==
    /\ run[r].pc = "write"
    /\ run[r].down = {"human", "pseudo"}
    /\ Become(r, Retrying(r))
    /\ UNCHANGED <<accumulationVars, labels, counter, dir, verdict, tracked, roundsBroken>>

NothingCollected(r) ==
    /\ run[r].pc = "write"
    /\ run[r].down # {"human", "pseudo"}
    /\ run[r].merged = {}
    /\ Become(r, Over(r, "skipped"))
    /\ UNCHANGED <<accumulationVars, labels, counter, dir, verdict, tracked, roundsBroken>>

(* The files go where another run may have put its own, under names of the *)
(* same form, and may be removed as they are written.                      *)
WriteDir(r) ==
    /\ run[r].pc = "write"
    /\ run[r].down # {"human", "pseudo"}
    /\ run[r].merged # {}
    /\ dir' \in IF dir = Empty /\ ~run[r].disturbed
                THEN Splits(run[r].merged) ELSE {Mixed}
    /\ Disturb(r, [run[r] EXCEPT !.pc = "judge", !.available = {}])
    /\ UNCHANGED <<accumulationVars, labels, counter, verdict, tracked, roundsBroken>>

(* Or fails on the way, by itself or for what another run removes.         *)
WriteDirFails(r) ==
    /\ run[r].pc = "write"
    /\ run[r].down # {"human", "pseudo"}
    /\ run[r].merged # {}
    /\ dir' = Mixed
    /\ Disturb(r, Retrying(r))
    /\ IF run[r].disturbed THEN NoFault ELSE Fault("write")
    /\ UNCHANGED <<bucket, stored, step, fetched, accepted, requests, labels,
                   counter, verdict, tracked, roundsBroken>>

(* Mutant: the gate is reported and not enforced.                          *)
ValidateImagesOnly(r) ==
    /\ run[r].pc = "judge"
    /\ verdict' \in Verdicts
    /\ Become(r, [run[r] EXCEPT !.pc = "version", !.stale = verdict # "none"])
    /\ UNCHANGED <<accumulationVars, labels, counter, dir, tracked, roundsBroken>>

(* G1.                                                                     *)
ValidateImages(r) ==
    /\ run[r].pc = "judge"
    /\ verdict' \in Verdicts
    /\ Become(r, IF verdict' = "healthy"
                 THEN [run[r] EXCEPT !.pc = "version", !.stale = verdict # "none"]
                 ELSE Over(r, "refused"))
    /\ UNCHANGED <<accumulationVars, labels, counter, dir, tracked, roundsBroken>>

ExpireVerdict ==
    /\ verdict # "none"
    /\ verdict' = "none"
    /\ UNCHANGED <<accumulationVars, labels, counter, dir, tracked, run, roundsBroken>>

(* _version_data: an add that fails leaves the .dvc file as it was, and    *)
(* nothing that fails stops the run.                                       *)
Version(r) ==
    /\ run[r].pc = "version"
    /\ \/ tracked' = Content(dir) /\ Goto(r, "train") /\ NoFault
       \/ /\ Become(r, [run[r] EXCEPT !.pc = "train", !.troubled = TRUE])
          /\ Fault("version")
          /\ UNCHANGED tracked
    /\ UNCHANGED <<bucket, stored, step, fetched, accepted, requests, labels,
                   counter, dir, verdict, roundsBroken>>

(* training_pipeline judges the images again, without a floor, and trains. *)
Train(r) ==
    /\ run[r].pc = "train"
    /\ verdict' \in Verdicts
    /\ \/ (dir = Mixed \/ Loadable(dir)) /\ Become(r, Over(r, "trained"))
       \/ ~Loadable(dir) /\ Become(r, Over(r, "failed"))
    /\ UNCHANGED <<accumulationVars, labels, counter, dir, tracked, roundsBroken>>

RunStep(r) ==
    \/ ReadRound(r) \/ WriteRound(r)
    \/ CleanDir(r) \/ CollectHuman(r) \/ ListPseudo(r) \/ ReadPseudo(r)
    \/ BothSourcesFailed(r) \/ NothingCollected(r) \/ WriteDir(r) \/ WriteDirFails(r)
    \/ ValidateImages(r) \/ Version(r) \/ Train(r)

Next ==
    \/ AccumulationNext /\ UNCHANGED trainingDataVars
    \/ \E x \in Labels : CompleteAnnotation(x)
    \/ \E r \in Runs : Start(r) \/ RunStep(r)
    \/ ExpireVerdict

Spec == Init /\ [][Next]_vars

-----------------------------------------------------------------------------
TypeOK ==
    /\ AccumulationTypeOK
    /\ labels \subseteq Labels
    /\ counter \in 0..(Cardinality(Runs) + MaxFaults)
    /\ dir \in Directories \cup {Mixed}
    /\ verdict \in {"none", "healthy", "unhealthy"}
    /\ tracked \subseteq Items \cup {Mixed}
    /\ \A r \in Runs :
          /\ run[r].pc \in {"idle", "readRound", "writeRound", "clean"}
                              \cup InDirectory \cup Ended
          /\ run[r].round \in 0..(Cardinality(Runs) + MaxFaults)
          /\ run[r].listed \subseteq Records
          /\ run[r].merged \cup run[r].available \subseteq Items
          /\ run[r].down \subseteq {"human", "pseudo"}
          /\ run[r].cause \in Accumulations \cup {NoCause}
    /\ roundsBroken \in BOOLEAN

(* Two runs share a round only if they raced for it or the counter could   *)
(* not be read: a write whose answer is lost costs a number, never a       *)
(* repetition (resolve_round_number).                                      *)
RoundsAreDistinct ==
    \/ roundsBroken
    \/ \A r, q \in {s \in Runs : run[s].pc \in {"clean"} \cup InDirectory \cup Ended} :
          run[r].round = run[q].round => r = q

(* A run no other has disturbed trains on exactly what it has merged in    *)
(* its last attempt, nothing of an earlier run's or attempt's, and that is *)
(* what DVC tracks for it.                                                 *)
TrainsOnOwnMerge ==
    \A r \in Runs :
       ~run[r].disturbed =>
          /\ run[r].pc \in {"version", "train"} => Content(dir) = run[r].merged
          /\ run[r].pc = "train" /\ ~run[r].troubled => tracked = run[r].merged

(* Of what was there when a run started, it leaves out three things only,  *)
(* unless a call failed: the annotations without an image or a class and   *)
(* the records without an image, both skipped silently, and the records    *)
(* the accumulation flow has deleted since.                                *)
NothingAvailableIsMissed ==
    \A r \in Runs :
       run[r].pc = "write" /\ ~run[r].troubled
          => run[r].available \subseteq
                run[r].merged \cup (stored \ bucket) \cup Unusable

(* Images that G1 would refuse are trained on only under a verdict reached *)
(* for another content of the directory, or after another run's            *)
(* interference.                                                           *)
UnhealthyNeedsStaleVerdict ==
    \A r \in Runs :
       run[r].pc \in {"version", "train"} /\ ~Healthy(dir)
          => run[r].stale \/ run[r].disturbed

(* Every class a run trains on is trained on, and validated on too if it   *)
(* has two images; none of them on both sides.                             *)
SplitCoversClasses ==
    \A r \in {q \in Runs : ~run[q].disturbed} :
       run[r].pc \in {"judge", "version", "train"} /\ dir # Mixed =>
          /\ dir.train \cap dir.val = {}
          /\ \A c \in {ClassOf[x] : x \in run[r].merged} :
                /\ OfClass(dir.train, c) # {}
                /\ Cardinality(OfClass(run[r].merged, c)) >= 2
                      => OfClass(dir.val, c) # {}

(* data_accumulation_flow.py:76-78: it "triggers the continuous training   *)
(* deployment to merge accumulated data into training and retrain the      *)
(* model".                                                                 *)
TriggeredRunMergesAccepted ==
    \A r \in Runs :
       run[r].pc = "write" /\ run[r].cause # NoCause
          => accepted[run[r].cause] \subseteq run[r].merged

=============================================================================
