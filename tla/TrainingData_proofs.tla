------------------------- MODULE TrainingData_proofs -------------------------
(***************************************************************************)
(* Theorems about TrainingData, and the DataAccumulation in it, for any    *)
(* number of records, annotations, runs of either flow and faults, and     *)
(* every value of the thresholds.                                          *)
(***************************************************************************)
EXTENDS TrainingData, FiniteSetTheorems, TLAPS

USE AccumulationAssumption, TrainingDataAssumption

-----------------------------------------------------------------------------
(* What the gate has accepted is what was fetched, and nothing before it   *)
(* is judged.                                                              *)
AccumulationInv ==
    /\ AccumulationTypeOK
    /\ \A a \in Accumulations :
          /\ step[a] \in {"idle", "list", "read", "validate"} => accepted[a] = {}
          /\ step[a] = "cleanup" => accepted[a] = fetched[a]
    /\ OnlyAcceptedIsDeleted

(* The steps of the training runs that matter to the accumulation flow: a  *)
(* request is taken, a call fails.                                         *)
Bystanding ==
    /\ UNCHANGED <<bucket, stored, step, fetched, accepted>>
    /\ requests' \subseteq requests
    /\ faults' \in {faults, faults + 1} \cap 0..MaxFaults

LEMMA FaultBound ==
    ASSUME faults \in 0..MaxFaults
    PROVE  /\ \A call : Fault(call) => faults' \in {faults, faults + 1} \cap 0..MaxFaults
           /\ NoFault => faults' \in {faults, faults + 1} \cap 0..MaxFaults
  BY DEF Fault, NoFault

LEMMA RunsStandBy ==
    ASSUME faults \in 0..MaxFaults, NEW r \in Runs, Start(r) \/ RunStep(r)
    PROVE  Bystanding
  <1> USE FaultBound DEF Bystanding, accumulationVars
  <1>1. CASE Start(r)
    BY <1>1 DEF Start
  <1>2. CASE ReadRound(r)
    BY <1>2 DEF ReadRound
  <1>3. CASE WriteRound(r)
    BY <1>3 DEF WriteRound
  <1>4. CASE CleanDir(r) \/ ListPseudo(r) \/ BothSourcesFailed(r)
             \/ NothingCollected(r) \/ WriteDir(r)
    BY <1>4 DEF CleanDir, ListPseudo, BothSourcesFailed, NothingCollected, WriteDir
  <1>5. CASE CollectHuman(r)
    BY <1>5 DEF CollectHuman
  <1>6. CASE ReadPseudo(r)
    BY <1>6 DEF ReadPseudo
  <1>7. CASE WriteDirFails(r)
    BY <1>7 DEF WriteDirFails
  <1>8. CASE ValidateImages(r) \/ Train(r)
    BY <1>8 DEF ValidateImages, Train
  <1>9. CASE Version(r)
    BY <1>9 DEF Version
  <1>10. QED
    BY <1>1, <1>2, <1>3, <1>4, <1>5, <1>6, <1>7, <1>8, <1>9 DEF RunStep

(* So does everything else but the accumulation flow and its bucket.       *)
LEMMA OthersStandBy ==
    ASSUME faults \in 0..MaxFaults, [Next]_vars, ~AccumulationNext
    PROVE  Bystanding
  <1>1. CASE \E x \in Labels : CompleteAnnotation(x)
    BY <1>1 DEF CompleteAnnotation, Bystanding, accumulationVars
  <1>2. CASE ExpireVerdict
    BY <1>2 DEF ExpireVerdict, Bystanding, accumulationVars
  <1>3. CASE UNCHANGED vars
    BY <1>3 DEF vars, Bystanding, accumulationVars
  <1>4. QED
    BY <1>1, <1>2, <1>3, RunsStandBy DEF Next

(* Where a run of the flow goes, the others stay.                          *)
LEMMA ProceedTo ==
    ASSUME AccumulationTypeOK, NEW a \in Accumulations,
           NEW l \in {"list", "read", "validate", "cleanup", "trigger", "done", "failed"},
           Proceed(a, l)
    PROVE  /\ step' \in [Accumulations -> {"idle", "list", "read", "validate",
                                           "cleanup", "trigger", "done", "failed"}]
           /\ step'[a] = l
           /\ \A b \in Accumulations : b # a => step'[b] = step[b]
  BY DEF Proceed, AccumulationTypeOK

-----------------------------------------------------------------------------
LEMMA AccumulationStepKeeps ==
    ASSUME AccumulationInv, AccumulationNext
    PROVE  AccumulationInv'
  <1> USE FaultBound DEF AccumulationInv, AccumulationTypeOK, OnlyAcceptedIsDeleted
  <1>1. ASSUME NEW x \in Records, StoreRecord(x) PROVE AccumulationInv'
    BY <1>1 DEF StoreRecord
  <1>2. ASSUME NEW a \in Accumulations, StartAccumulation(a) PROVE AccumulationInv'
    BY <1>2, ProceedTo DEF StartAccumulation
  <1>3. ASSUME NEW a \in Accumulations, ListSamples(a) PROVE AccumulationInv'
    BY <1>3, ProceedTo DEF ListSamples
  <1>4. ASSUME NEW a \in Accumulations, ReadSamples(a) PROVE AccumulationInv'
    BY <1>4, ProceedTo DEF ReadSamples
  <1>5. ASSUME NEW a \in Accumulations, Validate(a) PROVE AccumulationInv'
    BY <1>5, ProceedTo DEF Validate
  <1>6. ASSUME NEW a \in Accumulations, Cleanup(a) PROVE AccumulationInv'
    <2>1. stored \ bucket' \subseteq (stored \ bucket) \cup accepted[a]
      BY <1>6 DEF Cleanup
    <2>2. bucket' \subseteq bucket
      BY <1>6 DEF Cleanup
    <2>3. QED
      BY <1>6, <2>1, <2>2, ProceedTo DEF Cleanup
  <1>7. ASSUME NEW a \in Accumulations, TriggerRetraining(a) PROVE AccumulationInv'
    BY <1>7, ProceedTo DEF TriggerRetraining
  <1>8. QED
    BY <1>1, <1>2, <1>3, <1>4, <1>5, <1>6, <1>7 DEF AccumulationNext, AccumulationStep

LEMMA AccumulationInductive ==
    /\ Init => AccumulationInv
    /\ AccumulationInv /\ [Next]_vars => AccumulationInv'
  <1>1. Init => AccumulationInv
    BY DEF Init, AccumulationInit, AccumulationInv, AccumulationTypeOK,
           OnlyAcceptedIsDeleted
  <1>2. ASSUME AccumulationInv, [Next]_vars PROVE AccumulationInv'
    <2>1. CASE AccumulationNext
      BY <1>2, <2>1, AccumulationStepKeeps
    <2>2. CASE ~AccumulationNext
      <3>1. Bystanding
        BY <1>2, <2>2, OthersStandBy DEF AccumulationInv, AccumulationTypeOK
      <3>2. QED
        BY <1>2, <3>1 DEF Bystanding, AccumulationInv, AccumulationTypeOK,
                          OnlyAcceptedIsDeleted
    <2>3. QED
      BY <2>1, <2>2
  <1>3. QED
    BY <1>1, <1>2

(* Whatever has been deleted had passed the gate of the accumulation flow, *)
(* for any number of its runs, overlapping, with deletions that fail in    *)
(* part, and with accumulators that store meanwhile (cleanup_accumulated). *)
THEOREM AcceptedDeleted == Spec => []OnlyAcceptedIsDeleted
  <1>1. AccumulationInv => OnlyAcceptedIsDeleted
    BY DEF AccumulationInv
  <1>2. QED
    BY <1>1, AccumulationInductive, PTL DEF Spec

-----------------------------------------------------------------------------
Locations ==
    {"idle", "readRound", "writeRound", "clean", "human", "list", "read", "write",
     "judge", "version", "train", "skipped", "failed", "refused", "trained"}

RunRecord ==
    [pc : Locations, round : Nat, listed : SUBSET Records, merged : SUBSET Items,
     down : SUBSET {"human", "pseudo"}, retried : BOOLEAN,
     cause : Accumulations \cup {NoCause}, available : SUBSET Items,
     troubled : BOOLEAN, disturbed : BOOLEAN, stale : BOOLEAN]

(* Type correctness without the bound on the counter, which counts runs    *)
(* and faults.                                                             *)
DataType ==
    /\ AccumulationTypeOK
    /\ labels \subseteq Labels
    /\ counter \in Nat
    /\ dir \in Directories \cup {Mixed}
    /\ verdict \in {"none", "healthy", "unhealthy"}
    /\ tracked \subseteq Items \cup {Mixed}
    /\ run \in [Runs -> RunRecord]
    /\ roundsBroken \in BOOLEAN

(* A run that becomes a record of the right type leaves the others alone.  *)
LEMMA BecomeType ==
    ASSUME DataType, NEW r \in Runs, NEW rec \in RunRecord, Become(r, rec)
    PROVE  /\ run' \in [Runs -> RunRecord]
           /\ run'[r] = rec
           /\ \A q \in Runs : q # r => run'[q] = run[q]
  BY DEF Become, DataType

(* As it does when it disturbs them, but for what that leaves behind.      *)
LEMMA DisturbType ==
    ASSUME DataType, NEW r \in Runs, NEW rec \in RunRecord, Disturb(r, rec)
    PROVE  /\ run' \in [Runs -> RunRecord]
           /\ run'[r] = rec
           /\ \A q \in Runs : q # r =>
                 run'[q] = [run[q] EXCEPT !.disturbed = @ \/ run[q].pc \in InDirectory]
  <1>1. \A q \in Runs :
           [run[q] EXCEPT !.disturbed = @ \/ run[q].pc \in InDirectory] \in RunRecord
    BY DEF DataType, RunRecord
  <1>2. QED
    BY <1>1 DEF Disturb, DataType

LEMMA OverType ==
    ASSUME DataType, NEW r \in Runs, NEW l \in Locations
    PROVE  Over(r, l) \in RunRecord
  BY DEF DataType, RunRecord, Over, Fresh

LEMMA RetryingType ==
    ASSUME DataType, NEW r \in Runs
    PROVE  Retrying(r) \in RunRecord
  <1>1. Over(r, "failed") \in RunRecord
    BY OverType DEF Locations
  <1>2. run[r] \in RunRecord
    BY DEF DataType
  <1>3. [run[r] EXCEPT !.pc = "clean", !.retried = TRUE] \in RunRecord
    BY <1>2 DEF RunRecord, Locations
  <1>4. QED
    BY <1>1, <1>3 DEF Retrying

LEMMA SplitType ==
    ASSUME NEW S \in SUBSET Items, NEW d \in Splits(S)
    PROVE  d \in Directories
  BY DEF Splits, Directories

LEMMA VerdictType ==
    ASSUME verdict \in {"none", "healthy", "unhealthy"}
    PROVE  Verdicts \subseteq {"healthy", "unhealthy"}
  BY DEF Verdicts

(* How the pseudo path may end, having read got.                           *)
Reading(r, got) ==
    \/ /\ got = run[r].listed
       /\ Become(r, [run[r] EXCEPT !.pc = "write", !.listed = {}, !.merged = @ \cup (got \ Unusable)])
    \/ Become(r, [run[r] EXCEPT !.pc = "write", !.listed = {}, !.merged = @ \cup (got \ Unusable),
                                !.troubled = TRUE])
    \/ Become(r, [run[r] EXCEPT !.pc = "write", !.listed = {}, !.merged = @ \cup (got \ Unusable),
                                !.troubled = TRUE, !.down = @ \cup {"pseudo"}])

LEMMA ReadingCases ==
    ASSUME NEW r \in Runs, ReadPseudo(r)
    PROVE  \E got \in SUBSET (run[r].listed \cap bucket) : Reading(r, got)
  <1>1. PICK got \in SUBSET (run[r].listed \cap bucket) :
          LET after == [run[r] EXCEPT !.pc = "write", !.listed = {},
                                      !.merged = @ \cup (got \ Unusable)]
              amiss == [after EXCEPT !.troubled = TRUE]
              ended == [amiss EXCEPT !.down = @ \cup {"pseudo"}]
          IN  \/ got = run[r].listed /\ Become(r, after) /\ NoFault
              \/ ~(run[r].listed \subseteq bucket) /\ Become(r, ended) /\ NoFault
              \/ Become(r, ended) /\ Fault("read")
              \/ /\ \E x \in run[r].listed \ Unusable : got = run[r].listed \ {x}
                 /\ Become(r, amiss)
                 /\ Fault("image")
    BY DEF ReadPseudo
  <1>2. Reading(r, got)
    BY <1>1, Zenon DEF Reading
  <1>3. QED
    BY <1>2

-----------------------------------------------------------------------------
(* What a step of q does to the record of another run: at most disturb it, *)
(* and that always when it touches the directory the other is working in.  *)
LeavesAlone(q, r) ==
    /\ run'[r].pc = run[r].pc
    /\ run'[r].round = run[r].round
    /\ run'[r].listed = run[r].listed
    /\ run'[r].merged = run[r].merged
    /\ run'[r].down = run[r].down
    /\ run'[r].available = run[r].available
    /\ run'[r].troubled = run[r].troubled
    /\ run'[r].stale = run[r].stale
    /\ ~run'[r].disturbed =>
          /\ ~run[r].disturbed
          /\ dir' = dir \/ run[r].pc \notin InDirectory

LEMMA BecomeLeavesAlone ==
    ASSUME DataType, NEW q \in Runs, NEW rec \in RunRecord, Become(q, rec),
           UNCHANGED dir, NEW r \in Runs, r # q
    PROVE  LeavesAlone(q, r)
  BY BecomeType DEF LeavesAlone

LEMMA DisturbLeavesAlone ==
    ASSUME DataType, NEW q \in Runs, NEW rec \in RunRecord, Disturb(q, rec),
           NEW r \in Runs, r # q
    PROVE  LeavesAlone(q, r)
  <1>1. run'[r] = [run[r] EXCEPT !.disturbed = @ \/ run[r].pc \in InDirectory]
    BY DisturbType
  <1>2. run[r] \in RunRecord
    BY DEF DataType
  <1>3. run'[r].disturbed = (run[r].disturbed \/ run[r].pc \in InDirectory)
    BY <1>1, <1>2 DEF RunRecord
  <1>4. ~run'[r].disturbed => ~run[r].disturbed /\ run[r].pc \notin InDirectory
    BY <1>3
  <1>5. QED
    BY <1>1, <1>2, <1>4 DEF RunRecord, LeavesAlone

(* A step of r as its invariants see it: where it goes from and to, what   *)
(* becomes of its record, and that it leaves the others alone.             *)
Moves(r, from, to) ==
    /\ run' \in [Runs -> RunRecord]
    /\ \A q \in Runs : q # r => LeavesAlone(r, q)
    /\ run[r].pc = from
    /\ run'[r].pc = to

KeepsRound(r) == run'[r].round = run[r].round
KeepsMerge(r) ==
    /\ run'[r].merged = run[r].merged
    /\ run'[r].down = run[r].down
KeepsHistory(r) ==
    /\ run'[r].available = run[r].available
    /\ run'[r].disturbed = run[r].disturbed
KeepsTrouble(r) == run'[r].troubled = run[r].troubled

LEMMA StartMoves ==
    ASSUME DataType, NEW r \in Runs, Start(r)
    PROVE  /\ Moves(r, "idle", "readRound")
           /\ run'[r].down = {}
           /\ run'[r].round = 0
           /\ run'[r].available = labels \cup bucket
           /\ ~run'[r].troubled
  <1>1. PICK a \in requests \cup {NoCause} :
           Become(r, [Fresh EXCEPT !.pc = "readRound", !.cause = a,
                                   !.available = labels \cup bucket])
    BY DEF Start
  <1>2. [Fresh EXCEPT !.pc = "readRound", !.cause = a,
                      !.available = labels \cup bucket] \in RunRecord
    BY DEF Fresh, RunRecord, Locations, DataType, AccumulationTypeOK, Items
  <1>3. run' \in [Runs -> RunRecord]
    BY <1>1, <1>2, BecomeType
  <1>4. run'[r] = [Fresh EXCEPT !.pc = "readRound", !.cause = a,
                                !.available = labels \cup bucket]
    BY <1>1, <1>2, BecomeType
  <1>5. UNCHANGED dir /\ run[r].pc = "idle"
    BY DEF Start
  <1>6. \A q \in Runs : q # r => LeavesAlone(r, q)
    BY <1>1, <1>2, <1>5, BecomeLeavesAlone
  <1>7. QED
    BY <1>3, <1>4, <1>5, <1>6 DEF Fresh, Moves

LEMMA ReadRoundMoves ==
    ASSUME DataType, NEW r \in Runs, ReadRound(r)
    PROVE  /\ Moves(r, "readRound", "writeRound")
           /\ \E base \in {counter, 0} : run'[r].round = base + 1
           /\ ~roundsBroken' =>
                 /\ ~roundsBroken
                 /\ run'[r].round = counter + 1
                 /\ \A q \in Runs : run[q].pc # "writeRound"
           /\ KeepsMerge(r) /\ KeepsHistory(r) /\ KeepsTrouble(r)
  <1>1. PICK base \in {counter, 0} :
           /\ Become(r, [run[r] EXCEPT !.pc = "writeRound", !.round = base + 1])
           /\ \/ /\ base = counter
                 /\ roundsBroken' = (roundsBroken
                                      \/ \E q \in Runs : run[q].pc = "writeRound")
                 /\ NoFault
              \/ /\ base # counter
                 /\ roundsBroken' = TRUE
                 /\ Fault("readRound")
    BY DEF ReadRound
  <1>2. base + 1 \in Nat /\ run[r] \in RunRecord
    BY DEF DataType
  <1>3. [run[r] EXCEPT !.pc = "writeRound", !.round = base + 1] \in RunRecord
    BY <1>2 DEF RunRecord, Locations
  <1>4. /\ run' \in [Runs -> RunRecord]
        /\ run'[r] = [run[r] EXCEPT !.pc = "writeRound", !.round = base + 1]
    BY <1>1, <1>3, BecomeType
  <1>5. UNCHANGED dir /\ run[r].pc = "readRound"
    BY DEF ReadRound
  <1>6. \A q \in Runs : q # r => LeavesAlone(r, q)
    BY <1>1, <1>3, <1>5, BecomeLeavesAlone
  <1>7. Moves(r, "readRound", "writeRound")
    BY <1>2, <1>4, <1>5, <1>6 DEF Moves, RunRecord
  <1>8. run'[r].round = base + 1
    BY <1>2, <1>4 DEF RunRecord
  <1>9. ~roundsBroken' => ~roundsBroken /\ base = counter /\ \A q \in Runs : run[q].pc # "writeRound"
    BY <1>1, Zenon
  <1>10. KeepsMerge(r) /\ KeepsHistory(r) /\ KeepsTrouble(r)
    BY <1>2, <1>4 DEF RunRecord, KeepsMerge, KeepsHistory, KeepsTrouble
  <1>11. QED
    BY <1>7, <1>8, <1>9, <1>10

LEMMA WriteRoundMoves ==
    ASSUME DataType, NEW r \in Runs, WriteRound(r)
    PROVE  /\ \/ Moves(r, "writeRound", "clean") /\ counter' = run[r].round
              \/ /\ Moves(r, "writeRound", "readRound")
                 /\ counter' \in {counter, run[r].round}
           /\ KeepsRound(r) /\ KeepsMerge(r) /\ KeepsHistory(r) /\ KeepsTrouble(r)
  <1>1. PICK l \in {"clean", "readRound"} :
           /\ Goto(r, l)
           /\ \/ l = "clean" /\ counter' = run[r].round
              \/ l = "readRound" /\ counter' \in {counter, run[r].round}
    BY DEF WriteRound
  <1>2. run[r] \in RunRecord
    BY DEF DataType
  <1>3. [run[r] EXCEPT !.pc = l] \in RunRecord
    BY <1>2 DEF RunRecord, Locations
  <1>4. Become(r, [run[r] EXCEPT !.pc = l])
    BY <1>1 DEF Goto, Become, DataType
  <1>5. /\ run' \in [Runs -> RunRecord]
        /\ run'[r] = [run[r] EXCEPT !.pc = l]
    BY <1>3, <1>4, BecomeType
  <1>6. UNCHANGED dir /\ run[r].pc = "writeRound"
    BY DEF WriteRound
  <1>7. \A q \in Runs : q # r => LeavesAlone(r, q)
    BY <1>3, <1>4, <1>6, BecomeLeavesAlone
  <1>8. Moves(r, "writeRound", l)
    BY <1>2, <1>5, <1>6, <1>7 DEF Moves, RunRecord
  <1>9. KeepsRound(r) /\ KeepsMerge(r) /\ KeepsHistory(r) /\ KeepsTrouble(r)
    BY <1>2, <1>5 DEF RunRecord, KeepsRound, KeepsMerge, KeepsHistory, KeepsTrouble
  <1>10. QED
    BY <1>1, <1>8, <1>9

LEMMA CleanDirMoves ==
    ASSUME DataType, NEW r \in Runs, CleanDir(r)
    PROVE  /\ Moves(r, "clean", "human")
           /\ run'[r].down = {}
           /\ run'[r].available = run[r].available
           /\ KeepsRound(r) /\ KeepsTrouble(r)
  <1> DEFINE rec == [run[r] EXCEPT !.pc = "human", !.merged = {}, !.down = {},
                                   !.disturbed = FALSE]
  <1>1. run[r] \in RunRecord
    BY DEF DataType
  <1>2. rec \in RunRecord
    BY <1>1 DEF RunRecord, Locations
  <1>3. Disturb(r, rec) /\ run[r].pc = "clean"
    BY DEF CleanDir
  <1>4. run' \in [Runs -> RunRecord] /\ run'[r] = rec
    BY <1>2, <1>3, DisturbType
  <1>5. \A q \in Runs : q # r => LeavesAlone(r, q)
    BY <1>2, <1>3, DisturbLeavesAlone
  <1>6. QED
    BY <1>1, <1>3, <1>4, <1>5 DEF Moves, RunRecord, KeepsRound, KeepsTrouble

LEMMA CollectHumanMoves ==
    ASSUME DataType, NEW r \in Runs, CollectHuman(r)
    PROVE  /\ Moves(r, "human", "list")
           /\ run'[r].troubled \/ (run'[r].merged = labels \ Unusable /\ KeepsTrouble(r)
                                     /\ run'[r].down = run[r].down)
           /\ KeepsRound(r) /\ KeepsHistory(r)
  <1> DEFINE usable == labels \ Unusable
             full == [run[r] EXCEPT !.pc = "list", !.merged = usable]
             none == [run[r] EXCEPT !.pc = "list", !.troubled = TRUE, !.down = {"human"}]
             most(x) == [run[r] EXCEPT !.pc = "list", !.troubled = TRUE,
                                       !.merged = usable \ {x}]
  <1>1. run[r] \in RunRecord /\ labels \in SUBSET Items
    BY DEF DataType, Items
  <1>2. full \in RunRecord /\ none \in RunRecord
    BY <1>1 DEF RunRecord, Locations
  <1>3. \A x \in usable : most(x) \in RunRecord
    BY <1>1 DEF RunRecord, Locations
  <1>4. PICK rec \in {full, none} \cup {most(x) : x \in usable} : Become(r, rec)
    BY DEF CollectHuman
  <1>5. rec \in RunRecord
    BY <1>2, <1>3
  <1>6. run' \in [Runs -> RunRecord] /\ run'[r] = rec
    BY <1>4, <1>5, BecomeType
  <1>7. UNCHANGED dir /\ run[r].pc = "human"
    BY DEF CollectHuman
  <1>8. \A q \in Runs : q # r => LeavesAlone(r, q)
    BY <1>4, <1>5, <1>7, BecomeLeavesAlone
  <1>9. /\ rec.pc = "list"
        /\ rec.round = run[r].round
        /\ rec.available = run[r].available
        /\ rec.disturbed = run[r].disturbed
        /\ rec.troubled \/ rec = full
    <2>1. CASE rec = full
      BY <1>1, <2>1 DEF RunRecord
    <2>2. CASE rec = none
      BY <1>1, <2>2 DEF RunRecord
    <2>3. ASSUME NEW x \in usable, rec = most(x)
          PROVE  /\ rec.pc = "list"
                 /\ rec.round = run[r].round
                 /\ rec.available = run[r].available
                 /\ rec.disturbed = run[r].disturbed
                 /\ rec.troubled
      BY <1>1, <2>3 DEF RunRecord
    <2>4. QED
      BY <1>4, <2>1, <2>2, <2>3
  <1>11. /\ full.merged = usable
         /\ full.troubled = run[r].troubled
         /\ full.down = run[r].down
    BY <1>1 DEF RunRecord
  <1>12. QED
    BY <1>6, <1>7, <1>8, <1>9, <1>11 DEF Moves, KeepsRound, KeepsHistory, KeepsTrouble

LEMMA ListPseudoMoves ==
    ASSUME DataType, NEW r \in Runs, ListPseudo(r)
    PROVE  /\ Moves(r, "list", "read")
           /\ run'[r].listed = bucket
           /\ KeepsRound(r) /\ KeepsMerge(r) /\ KeepsHistory(r) /\ KeepsTrouble(r)
  <1>1. run[r] \in RunRecord /\ bucket \in SUBSET Records
    BY DEF DataType, AccumulationTypeOK
  <1>2. [run[r] EXCEPT !.pc = "read", !.listed = bucket] \in RunRecord
    BY <1>1 DEF RunRecord, Locations
  <1>3. /\ Become(r, [run[r] EXCEPT !.pc = "read", !.listed = bucket])
        /\ UNCHANGED dir
        /\ run[r].pc = "list"
    BY DEF ListPseudo
  <1>4. /\ run' \in [Runs -> RunRecord]
        /\ run'[r] = [run[r] EXCEPT !.pc = "read", !.listed = bucket]
    BY <1>2, <1>3, BecomeType
  <1>5. \A q \in Runs : q # r => LeavesAlone(r, q)
    BY <1>2, <1>3, BecomeLeavesAlone
  <1>6. QED
    BY <1>1, <1>3, <1>4, <1>5
      DEF Moves, RunRecord, KeepsRound, KeepsMerge, KeepsHistory, KeepsTrouble

LEMMA ReadPseudoMoves ==
    ASSUME DataType, NEW r \in Runs, ReadPseudo(r)
    PROVE  /\ Moves(r, "read", "write")
           /\ run'[r].troubled \/ (/\ run'[r].merged = run[r].merged \cup (run[r].listed \ Unusable)
                                   /\ KeepsTrouble(r)
                                   /\ run'[r].down = run[r].down)
           /\ KeepsRound(r) /\ KeepsHistory(r)
  <1>1. run[r] \in RunRecord /\ bucket \in SUBSET Items
    BY DEF DataType, AccumulationTypeOK, Items
  <1>2. PICK got \in SUBSET (run[r].listed \cap bucket) : Reading(r, got)
    BY ReadingCases
  <1> DEFINE after == [run[r] EXCEPT !.pc = "write", !.listed = {}, !.merged = @ \cup (got \ Unusable)]
             amiss == [run[r] EXCEPT !.pc = "write", !.listed = {}, !.merged = @ \cup (got \ Unusable),
                                     !.troubled = TRUE]
             ended == [run[r] EXCEPT !.pc = "write", !.listed = {}, !.merged = @ \cup (got \ Unusable),
                                     !.troubled = TRUE, !.down = @ \cup {"pseudo"}]
  <1>3. got \in SUBSET Items
    BY <1>1
  <1>4. after \in RunRecord /\ amiss \in RunRecord /\ ended \in RunRecord
    BY <1>1, <1>3 DEF RunRecord, Locations
  <1>5. PICK rec \in {after, amiss, ended} :
           /\ Become(r, rec)
           /\ (rec = after /\ got = run[r].listed) \/ rec \in {amiss, ended}
    BY <1>2 DEF Reading
  <1>6. rec \in RunRecord
    BY <1>4
  <1>7. run' \in [Runs -> RunRecord] /\ run'[r] = rec
    BY <1>5, <1>6, BecomeType
  <1>8. UNCHANGED dir /\ run[r].pc = "read"
    BY DEF ReadPseudo
  <1>9. \A q \in Runs : q # r => LeavesAlone(r, q)
    BY <1>5, <1>6, <1>8, BecomeLeavesAlone
  <1>10. /\ rec.pc = "write"
         /\ rec.round = run[r].round
         /\ rec.available = run[r].available
         /\ rec.disturbed = run[r].disturbed
    <2>1. CASE rec = after
      BY <1>1, <2>1 DEF RunRecord
    <2>2. CASE rec = amiss
      BY <1>1, <2>2 DEF RunRecord
    <2>3. CASE rec = ended
      BY <1>1, <2>3 DEF RunRecord
    <2>4. QED
      BY <1>5, <2>1, <2>2, <2>3, Zenon
  <1>11. rec.troubled \/ (rec = after /\ got = run[r].listed)
    BY <1>1, <1>5 DEF RunRecord
  <1>12. /\ after.merged = run[r].merged \cup (got \ Unusable)
         /\ after.troubled = run[r].troubled
         /\ after.down = run[r].down
    BY <1>1 DEF RunRecord
  <1>13. QED
    BY <1>5, <1>7, <1>8, <1>9, <1>10, <1>11, <1>12
      DEF Moves, KeepsRound, KeepsHistory, KeepsTrouble

LEMMA RetryingMoves ==
    ASSUME DataType, NEW r \in Runs
    PROVE  /\ Retrying(r) \in RunRecord
           /\ Retrying(r).pc \in {"clean", "failed"}
           /\ Retrying(r).round = run[r].round
           /\ \/ Retrying(r).down = {} /\ Retrying(r).available = {}
              \/ /\ Retrying(r).down = run[r].down
                 /\ Retrying(r).available = run[r].available
                 /\ Retrying(r).troubled = run[r].troubled
  <1>1. run[r] \in RunRecord
    BY DEF DataType
  <1>2. CASE run[r].retried
    BY <1>1, <1>2, RetryingType DEF Retrying, Over, Fresh, RunRecord
  <1>3. CASE ~run[r].retried
    BY <1>1, <1>3, RetryingType DEF Retrying, RunRecord
  <1>4. QED
    BY <1>2, <1>3

(* A failed attempt ends the run or sends it back to the cleaning, with    *)
(* the trouble it has met.                                                 *)
GivesUp(r) ==
    /\ Moves(r, "write", "clean") \/ Moves(r, "write", "failed")
    /\ KeepsRound(r)
    /\ \/ run'[r].down = {} /\ run'[r].available = {}
       \/ /\ run'[r].down = run[r].down
          /\ run'[r].available = run[r].available
          /\ KeepsTrouble(r)

LEMMA BothSourcesFailedMoves ==
    ASSUME DataType, NEW r \in Runs, BothSourcesFailed(r)
    PROVE  GivesUp(r) /\ UNCHANGED dir
  <1>1. Become(r, Retrying(r)) /\ run[r].pc = "write" /\ UNCHANGED dir
    BY DEF BothSourcesFailed
  <1>2. run' \in [Runs -> RunRecord] /\ run'[r] = Retrying(r)
    BY <1>1, RetryingMoves, BecomeType
  <1>3. \A q \in Runs : q # r => LeavesAlone(r, q)
    BY <1>1, RetryingMoves, BecomeLeavesAlone
  <1>4. QED
    BY <1>1, <1>2, <1>3, RetryingMoves DEF GivesUp, Moves, KeepsRound, KeepsTrouble

LEMMA WriteDirFailsMoves ==
    ASSUME DataType, NEW r \in Runs, WriteDirFails(r)
    PROVE  GivesUp(r)
  <1>1. Disturb(r, Retrying(r)) /\ run[r].pc = "write"
    BY DEF WriteDirFails
  <1>2. run' \in [Runs -> RunRecord] /\ run'[r] = Retrying(r)
    BY <1>1, RetryingMoves, DisturbType
  <1>3. \A q \in Runs : q # r => LeavesAlone(r, q)
    BY <1>1, RetryingMoves, DisturbLeavesAlone
  <1>4. QED
    BY <1>1, <1>2, <1>3, RetryingMoves DEF GivesUp, Moves, KeepsRound, KeepsTrouble

(* A run that ends keeps its round only.                                   *)
Ends(r, from, to) ==
    /\ Moves(r, from, to)
    /\ KeepsRound(r)
    /\ run'[r].down = {}
    /\ run'[r].available = {}

LEMMA EndsMoves ==
    ASSUME DataType, NEW r \in Runs, NEW l \in {"skipped", "refused", "trained", "failed"},
           Become(r, Over(r, l)), UNCHANGED dir
    PROVE  Ends(r, run[r].pc, l)
  <1>1. run[r] \in RunRecord
    BY DEF DataType
  <1>2. Over(r, l) \in RunRecord
    BY OverType DEF Locations
  <1>3. run' \in [Runs -> RunRecord] /\ run'[r] = Over(r, l)
    BY <1>2, BecomeType
  <1>4. \A q \in Runs : q # r => LeavesAlone(r, q)
    BY <1>2, BecomeLeavesAlone
  <1>5. QED
    BY <1>1, <1>3, <1>4 DEF Ends, Moves, KeepsRound, Over, Fresh

LEMMA NothingCollectedMoves ==
    ASSUME DataType, NEW r \in Runs, NothingCollected(r)
    PROVE  Ends(r, "write", "skipped") /\ UNCHANGED dir
  <1>1. Become(r, Over(r, "skipped")) /\ run[r].pc = "write" /\ UNCHANGED dir
    BY DEF NothingCollected
  <1>2. QED
    BY <1>1, EndsMoves

LEMMA WriteDirMoves ==
    ASSUME DataType, NEW r \in Runs, WriteDir(r)
    PROVE  /\ Moves(r, "write", "judge")
           /\ (dir = Empty /\ ~run[r].disturbed) => dir' \in Splits(run[r].merged)
           /\ dir' \in Directories \cup {Mixed}
           /\ KeepsRound(r) /\ KeepsMerge(r) /\ KeepsTrouble(r)
           /\ run'[r].disturbed = run[r].disturbed
           /\ run'[r].available = {}
  <1> DEFINE rec == [run[r] EXCEPT !.pc = "judge", !.available = {}]
  <1>1. run[r] \in RunRecord
    BY DEF DataType
  <1>2. rec \in RunRecord
    BY <1>1 DEF RunRecord, Locations
  <1>3. Disturb(r, rec) /\ run[r].pc = "write"
    BY DEF WriteDir
  <1>4. run' \in [Runs -> RunRecord] /\ run'[r] = rec
    BY <1>2, <1>3, DisturbType
  <1>5. \A q \in Runs : q # r => LeavesAlone(r, q)
    BY <1>2, <1>3, DisturbLeavesAlone
  <1>6. run[r].merged \in SUBSET Items
    BY <1>1 DEF RunRecord
  <1>7. dir' \in Directories \cup {Mixed}
    BY <1>6, SplitType DEF WriteDir
  <1>8. (dir = Empty /\ ~run[r].disturbed) => dir' \in Splits(run[r].merged)
    BY DEF WriteDir
  <1>9. QED
    BY <1>1, <1>3, <1>4, <1>5, <1>7, <1>8
      DEF Moves, RunRecord, KeepsRound, KeepsMerge, KeepsTrouble

LEMMA ValidateImagesMoves ==
    ASSUME DataType, NEW r \in Runs, ValidateImages(r)
    PROVE  /\ UNCHANGED dir
           /\ \/ Ends(r, "judge", "refused")
              \/ /\ Moves(r, "judge", "version")
                 /\ KeepsRound(r) /\ KeepsMerge(r) /\ KeepsHistory(r) /\ KeepsTrouble(r)
                 /\ run'[r].stale \/ dir = Mixed \/ Healthy(dir)
  <1> DEFINE rec == [run[r] EXCEPT !.pc = "version", !.stale = verdict # "none"]
  <1>1. run[r] \in RunRecord
    BY DEF DataType
  <1>2. rec \in RunRecord
    BY <1>1 DEF RunRecord, Locations
  <1>3. UNCHANGED dir /\ run[r].pc = "judge" /\ verdict' \in Verdicts
    BY DEF ValidateImages
  <1>4. CASE verdict' = "healthy"
    <2>1. Become(r, rec)
      BY <1>4 DEF ValidateImages
    <2>2. run' \in [Runs -> RunRecord] /\ run'[r] = rec
      BY <1>2, <2>1, BecomeType
    <2>3. \A q \in Runs : q # r => LeavesAlone(r, q)
      BY <1>2, <1>3, <2>1, BecomeLeavesAlone
    <2>4. rec.stale = (verdict # "none")
      BY <1>1 DEF RunRecord
    <2>5. verdict = "none" => dir = Mixed \/ Healthy(dir)
      BY <1>3, <1>4 DEF Verdicts
    <2>6. run'[r].stale \/ dir = Mixed \/ Healthy(dir)
      BY <2>2, <2>4, <2>5
    <2>7. QED
      BY <1>1, <1>3, <2>2, <2>3, <2>6
        DEF Moves, RunRecord, KeepsRound, KeepsMerge, KeepsHistory, KeepsTrouble
  <1>5. CASE verdict' # "healthy"
    <2>1. Become(r, Over(r, "refused"))
      BY <1>5 DEF ValidateImages
    <2>2. QED
      BY <1>3, <2>1, EndsMoves
  <1>6. QED
    BY <1>4, <1>5

LEMMA VersionMoves ==
    ASSUME DataType, NEW r \in Runs, Version(r)
    PROVE  /\ Moves(r, "version", "train")
           /\ UNCHANGED dir
           /\ run'[r].troubled \/ tracked' = Content(dir)
           /\ tracked' \in {tracked, Content(dir)}
           /\ run'[r].stale = run[r].stale
           /\ KeepsRound(r) /\ KeepsMerge(r) /\ KeepsHistory(r)
  <1> DEFINE fine  == [run[r] EXCEPT !.pc = "train"]
             amiss == [run[r] EXCEPT !.pc = "train", !.troubled = TRUE]
  <1>1. run[r] \in RunRecord
    BY DEF DataType
  <1>2. fine \in RunRecord /\ amiss \in RunRecord
    BY <1>1 DEF RunRecord, Locations
  <1>3. UNCHANGED dir /\ run[r].pc = "version"
    BY DEF Version
  <1>4. PICK rec \in {fine, amiss} :
           /\ Become(r, rec)
           /\ (rec = fine /\ tracked' = Content(dir)) \/ (rec = amiss /\ tracked' = tracked)
    <2>1. CASE tracked' = Content(dir) /\ Goto(r, "train")
      BY <2>1 DEF Goto, Become, DataType
    <2>2. CASE Become(r, amiss) /\ UNCHANGED tracked
      BY <2>2
    <2>3. QED
      BY <2>1, <2>2 DEF Version
  <1>5. rec \in RunRecord
    BY <1>2
  <1>6. run' \in [Runs -> RunRecord] /\ run'[r] = rec
    BY <1>4, <1>5, BecomeType
  <1>7. \A q \in Runs : q # r => LeavesAlone(r, q)
    BY <1>3, <1>4, <1>5, BecomeLeavesAlone
  <1>8. rec = amiss => rec.troubled
    BY <1>1 DEF RunRecord
  <1>9. /\ rec.pc = "train"
        /\ rec.round = run[r].round
        /\ rec.merged = run[r].merged
        /\ rec.down = run[r].down
        /\ rec.available = run[r].available
        /\ rec.disturbed = run[r].disturbed
        /\ rec.stale = run[r].stale
    BY <1>1 DEF RunRecord
  <1>10. QED
    BY <1>3, <1>4, <1>6, <1>7, <1>8, <1>9
      DEF Moves, KeepsRound, KeepsMerge, KeepsHistory

LEMMA TrainMoves ==
    ASSUME DataType, NEW r \in Runs, Train(r)
    PROVE  UNCHANGED dir /\ \E l \in {"trained", "failed"} : Ends(r, "train", l)
  <1>1. UNCHANGED dir /\ run[r].pc = "train"
    BY DEF Train
  <1>2. PICK l \in {"trained", "failed"} : Become(r, Over(r, l))
    BY DEF Train
  <1>3. QED
    BY <1>1, <1>2, EndsMoves

-----------------------------------------------------------------------------
(* Every step of a run keeps every variable's type.                        *)
LEMMA RunStepType ==
    ASSUME DataType, NEW r \in Runs, Start(r) \/ RunStep(r)
    PROVE  DataType'
  <1>1. AccumulationTypeOK'
    BY RunsStandBy DEF Bystanding, AccumulationTypeOK, DataType
  <1>2. Empty \in Directories
    BY DEF Empty, Directories
  <1>3. CASE Start(r)
    BY <1>1, <1>3, StartMoves DEF Start, Moves, DataType
  <1>4. CASE ReadRound(r)
    <2>1. roundsBroken' \in BOOLEAN
      <3>1. \/ roundsBroken' = TRUE
            \/ roundsBroken' = (roundsBroken \/ \E q \in Runs : run[q].pc = "writeRound")
        BY <1>4, Zenon DEF ReadRound
      <3>2. QED
        BY <3>1, Zenon
    <2>2. QED
      BY <1>1, <1>4, <2>1, ReadRoundMoves DEF ReadRound, Moves, DataType
  <1>5. CASE WriteRound(r)
    <2>1. run[r].round \in Nat
      BY DEF DataType, RunRecord
    <2>2. QED
      BY <1>1, <1>5, <2>1, WriteRoundMoves DEF WriteRound, Moves, DataType
  <1>6. CASE CleanDir(r)
    BY <1>1, <1>2, <1>6, CleanDirMoves DEF CleanDir, Moves, DataType
  <1>7. CASE CollectHuman(r)
    BY <1>1, <1>7, CollectHumanMoves DEF CollectHuman, Moves, DataType
  <1>8. CASE ListPseudo(r)
    BY <1>1, <1>8, ListPseudoMoves DEF ListPseudo, Moves, DataType
  <1>9. CASE ReadPseudo(r)
    BY <1>1, <1>9, ReadPseudoMoves DEF ReadPseudo, Moves, DataType
  <1>10. CASE BothSourcesFailed(r)
    BY <1>1, <1>10, BothSourcesFailedMoves DEF BothSourcesFailed, GivesUp, Moves, DataType
  <1>11. CASE NothingCollected(r)
    BY <1>1, <1>11, NothingCollectedMoves DEF NothingCollected, Ends, Moves, DataType
  <1>12. CASE WriteDir(r)
    BY <1>1, <1>12, WriteDirMoves DEF WriteDir, Moves, DataType
  <1>13. CASE WriteDirFails(r)
    BY <1>1, <1>13, WriteDirFailsMoves DEF WriteDirFails, GivesUp, Moves, DataType
  <1>14. CASE ValidateImages(r)
    BY <1>1, <1>14, ValidateImagesMoves, VerdictType DEF ValidateImages, Ends, Moves, DataType
  <1>15. CASE Version(r)
    <2>1. Content(dir) \subseteq Items \cup {Mixed}
      BY DEF Content, Directories, DataType
    <2>2. QED
      BY <1>1, <1>15, <2>1, VersionMoves DEF Version, Moves, DataType
  <1>16. CASE Train(r)
    BY <1>1, <1>16, TrainMoves, VerdictType DEF Train, Ends, Moves, DataType
  <1>17. QED
    BY <1>3, <1>4, <1>5, <1>6, <1>7, <1>8, <1>9, <1>10, <1>11, <1>12, <1>13,
       <1>14, <1>15, <1>16 DEF RunStep

(* Initially nothing has run.                                              *)
LEMMA InitType == Init => DataType
  <1> SUFFICES ASSUME Init PROVE DataType
    OBVIOUS
  <1>1. Fresh \in RunRecord
    BY DEF Fresh, RunRecord, Locations
  <1>2. Empty \in Directories
    BY DEF Empty, Directories
  <1>3. AccumulationTypeOK
    BY AccumulationInductive DEF AccumulationInv
  <1>4. QED
    BY <1>1, <1>2, <1>3 DEF Init, DataType

LEMMA NextType ==
    ASSUME DataType, [Next]_vars, AccumulationTypeOK'
    PROVE  DataType'
  <1>1. CASE AccumulationNext /\ UNCHANGED trainingDataVars
    BY <1>1 DEF DataType, trainingDataVars
  <1>2. CASE \E x \in Labels : CompleteAnnotation(x)
    BY <1>2 DEF DataType, CompleteAnnotation
  <1>3. CASE \E r \in Runs : Start(r) \/ RunStep(r)
    BY <1>3, RunStepType
  <1>4. CASE ExpireVerdict
    BY <1>4 DEF DataType, ExpireVerdict
  <1>5. CASE UNCHANGED vars
    BY <1>5 DEF DataType, vars, trainingDataVars
  <1>6. QED
    BY <1>1, <1>2, <1>3, <1>4, <1>5 DEF Next

-----------------------------------------------------------------------------
(* Where a run has its round for good.                                     *)
Counted == {"clean"} \cup InDirectory \cup Ended

(* Until the counter is raced for, one run at most is about to write it,   *)
(* the number it will write is the next, and the runs that have written    *)
(* theirs have lower ones.                                                 *)
RoundInv ==
    ~roundsBroken =>
       /\ \A r \in Runs : run[r].pc = "writeRound" => run[r].round = counter + 1
       /\ \A r, q \in Runs :
             run[r].pc = "writeRound" /\ run[q].pc = "writeRound" => r = q
       /\ \A r \in Runs : run[r].pc \in Counted => run[r].round <= counter
       /\ \A r, q \in Runs :
             /\ run[r].pc \in Counted
             /\ run[q].pc \in Counted
             /\ run[r].round = run[q].round
             => r = q

LEMMA CountedStep ==
    ASSUME DataType, NEW r \in Runs, RunStep(r), ~ReadRound(r), ~WriteRound(r)
    PROVE  /\ \E from, to \in Counted : Moves(r, from, to)
           /\ KeepsRound(r)
           /\ UNCHANGED <<counter, roundsBroken>>
  <1> USE DEF Counted, InDirectory, Ended
  <1>1. CASE CleanDir(r)
    BY <1>1, CleanDirMoves DEF CleanDir
  <1>2. CASE CollectHuman(r)
    BY <1>2, CollectHumanMoves DEF CollectHuman
  <1>3. CASE ListPseudo(r)
    BY <1>3, ListPseudoMoves DEF ListPseudo
  <1>4. CASE ReadPseudo(r)
    BY <1>4, ReadPseudoMoves DEF ReadPseudo
  <1>5. CASE BothSourcesFailed(r)
    BY <1>5, BothSourcesFailedMoves DEF BothSourcesFailed, GivesUp
  <1>6. CASE NothingCollected(r)
    BY <1>6, NothingCollectedMoves DEF NothingCollected, Ends
  <1>7. CASE WriteDir(r)
    BY <1>7, WriteDirMoves DEF WriteDir
  <1>8. CASE WriteDirFails(r)
    BY <1>8, WriteDirFailsMoves DEF WriteDirFails, GivesUp
  <1>9. CASE ValidateImages(r)
    BY <1>9, ValidateImagesMoves DEF ValidateImages, Ends
  <1>10. CASE Version(r)
    BY <1>10, VersionMoves DEF Version
  <1>11. CASE Train(r)
    BY <1>11, TrainMoves DEF Train, Ends
  <1>12. QED
    BY <1>1, <1>2, <1>3, <1>4, <1>5, <1>6, <1>7, <1>8, <1>9, <1>10, <1>11 DEF RunStep

LEMMA RoundsStep ==
    ASSUME DataType, RoundInv, NEW r \in Runs, Start(r) \/ RunStep(r)
    PROVE  RoundInv'
  <1> USE DEF RoundInv, Moves, LeavesAlone
  <1>1. \A q \in Runs : run[q].round \in Nat /\ counter \in Nat
    BY DEF DataType, RunRecord
  <1>2. "writeRound" \notin Counted /\ "readRound" \notin Counted
    BY DEF Counted, InDirectory, Ended
  <1>3. CASE Start(r)
    <2>1. UNCHANGED counter /\ UNCHANGED roundsBroken
      BY <1>3 DEF Start
    <2>2. Moves(r, "idle", "readRound")
      BY <1>3, StartMoves
    <2>3. \A q \in Runs : q # r => run'[q].pc = run[q].pc /\ run'[q].round = run[q].round
      BY <2>2
    <2>4. run'[r].pc \notin Counted /\ run'[r].pc # "writeRound"
      BY <1>2, <2>2
    <2>5. QED
      BY <2>1, <2>3, <2>4
  <1>4. CASE ReadRound(r)
    <2>1. UNCHANGED counter
      BY <1>4 DEF ReadRound
    <2>2. SUFFICES ASSUME ~roundsBroken' PROVE RoundInv'
      OBVIOUS
    <2>3. /\ ~roundsBroken
          /\ Moves(r, "readRound", "writeRound")
          /\ run'[r].round = counter + 1
          /\ \A q \in Runs : run[q].pc # "writeRound"
      BY <1>4, <2>2, ReadRoundMoves
    <2>4. QED
      BY <1>1, <1>2, <2>1, <2>3
  <1>5. CASE WriteRound(r)
    <2>1. UNCHANGED roundsBroken
      BY <1>5 DEF WriteRound
    <2>2. SUFFICES ASSUME ~roundsBroken PROVE RoundInv'
      BY <2>1
    <2>3. run[r].pc = "writeRound" /\ run[r].round = counter + 1
      BY <1>5, <2>2 DEF WriteRound
    <2>4. \A q \in Runs : q # r => run[q].pc # "writeRound"
      BY <2>2, <2>3
    <2>5. CASE Moves(r, "writeRound", "clean") /\ counter' = run[r].round
      BY <1>1, <1>2, <1>5, <2>2, <2>3, <2>4, <2>5, WriteRoundMoves DEF KeepsRound
    <2>6. CASE /\ Moves(r, "writeRound", "readRound")
               /\ counter' \in {counter, run[r].round}
      BY <1>1, <1>2, <2>2, <2>3, <2>4, <2>6
    <2>7. QED
      BY <1>5, <2>5, <2>6, WriteRoundMoves
  <1>6. CASE RunStep(r) /\ ~ReadRound(r) /\ ~WriteRound(r)
    <2>1. PICK from \in Counted, to \in Counted : Moves(r, from, to)
      BY <1>6, CountedStep
    <2>2. KeepsRound(r) /\ UNCHANGED <<counter, roundsBroken>>
      BY <1>6, CountedStep
    <2>3. \A q \in Runs : run'[q].round = run[q].round
      BY <2>1, <2>2 DEF KeepsRound
    <2>4. \A q \in Runs : q # r => run'[q].pc = run[q].pc
      BY <2>1
    <2>5. /\ run[r].pc \in Counted /\ run'[r].pc \in Counted
          /\ run'[r].pc # "writeRound"
      BY <1>2, <2>1
    <2>6. QED
      BY <2>2, <2>3, <2>4, <2>5
  <1>7. QED
    BY <1>3, <1>4, <1>5, <1>6 DEF RunStep

LEMMA RoundsInductive ==
    /\ Init => RoundInv
    /\ DataType /\ RoundInv /\ [Next]_vars => RoundInv'
  <1>1. Init => RoundInv
    BY DEF Init, RoundInv, Fresh, Counted, InDirectory, Ended
  <1>2. ASSUME DataType, RoundInv, [Next]_vars PROVE RoundInv'
    <2>1. CASE \E r \in Runs : Start(r) \/ RunStep(r)
      BY <1>2, <2>1, RoundsStep
    <2>2. CASE UNCHANGED <<run, counter, roundsBroken>>
      BY <1>2, <2>2 DEF RoundInv
    <2>3. \/ \E r \in Runs : Start(r) \/ RunStep(r)
          \/ UNCHANGED <<run, counter, roundsBroken>>
      BY <1>2 DEF Next, trainingDataVars, vars, CompleteAnnotation, ExpireVerdict
    <2>4. QED
      BY <2>1, <2>2, <2>3
  <1>3. QED
    BY <1>1, <1>2

(* The types hold throughout.                                              *)
LEMMA DataTyped == Spec => []DataType
  <1>1. AccumulationInv => AccumulationTypeOK
    BY DEF AccumulationInv
  <1>2. AccumulationInv' => AccumulationTypeOK'
    BY DEF AccumulationInv
  <1>3. QED
    BY <1>2, InitType, NextType, AccumulationInductive, PTL DEF Spec

(* Two runs share a round only if they raced for it or the counter could   *)
(* not be read, for any number of runs and of writes whose answer is lost  *)
(* (resolve_round_number).                                                 *)
THEOREM DistinctRounds == Spec => []RoundsAreDistinct
  <1>1. DataType /\ RoundInv => RoundsAreDistinct
    BY DEF RoundInv, RoundsAreDistinct, Counted
  <1>2. QED
    BY <1>1, RoundsInductive, DataTyped, PTL DEF Spec

-----------------------------------------------------------------------------
(* What the directory holds for a run no other has disturbed: nothing      *)
(* until it writes, a split of its merge afterwards; which is healthy, or  *)
(* judged by an old verdict, once judged, and what DVC tracks, once        *)
(* recorded.                                                               *)
Holds(r) ==
    ~run[r].disturbed =>
       /\ run[r].pc \in {"human", "list", "read", "write"} => dir = Empty
       /\ run[r].pc \in {"judge", "version", "train"} => dir \in Splits(run[r].merged)
       /\ run[r].pc \in {"version", "train"} => run[r].stale \/ Healthy(dir)
       /\ run[r].pc = "train" /\ ~run[r].troubled => tracked = run[r].merged

DirectoryInv == \A r \in Runs : Holds(r)

LEMMA SplitContent ==
    ASSUME NEW S \in SUBSET Items, NEW d \in Splits(S)
    PROVE  d # Mixed /\ Content(d) = S
  <1>1. d # Mixed
    BY SplitType
  <1>2. d.train \subseteq S /\ d.val = S \ d.train
    BY DEF Splits
  <1>3. QED
    BY <1>1, <1>2 DEF Content

LEMMA MergedType ==
    ASSUME DataType, NEW r \in Runs
    PROVE  run[r].merged \subseteq Items
  BY DEF DataType, RunRecord

(* Only Version changes what is tracked, and it records what is there.     *)
LEMMA TrackedStep ==
    ASSUME NEW r \in Runs, Start(r) \/ RunStep(r)
    PROVE  UNCHANGED tracked \/ (UNCHANGED dir /\ tracked' = Content(dir))
  BY DEF RunStep, Start, ReadRound, WriteRound, CleanDir, CollectHuman, ListPseudo,
         ReadPseudo, BothSourcesFailed, NothingCollected, WriteDir, WriteDirFails,
         ValidateImages, Version, Train

(* A run another one leaves alone finds its directory as it was.           *)
LEMMA OthersHold ==
    ASSUME DataType, NEW r \in Runs, NEW q \in Runs, Holds(r), LeavesAlone(q, r),
           UNCHANGED tracked \/ (UNCHANGED dir /\ tracked' = Content(dir))
    PROVE  Holds(r)'
  <1>1. SUFFICES ASSUME ~run'[r].disturbed PROVE Holds(r)'
    BY DEF Holds
  <1>2. ~run[r].disturbed /\ (dir' = dir \/ run[r].pc \notin InDirectory)
    BY <1>1 DEF LeavesAlone
  <1>3. CASE run[r].pc \notin InDirectory
    BY <1>3 DEF LeavesAlone, Holds, InDirectory
  <1>4. CASE dir' = dir
    <2>1. dir \in Splits(run[r].merged) => Content(dir) = run[r].merged
      BY SplitContent, MergedType
    <2>2. CASE UNCHANGED tracked
      BY <1>2, <1>4, <2>2 DEF LeavesAlone, Holds, Healthy
    <2>3. CASE tracked' = Content(dir)
      BY <1>2, <1>4, <2>1, <2>3 DEF LeavesAlone, Holds, Healthy
    <2>4. QED
      BY <1>4, <2>2, <2>3
  <1>5. QED
    BY <1>2, <1>3, <1>4

(* Outside the directory nothing is asked of it.                           *)
LEMMA OutsideHolds ==
    ASSUME NEW r \in Runs, run'[r].pc \notin InDirectory
    PROVE  Holds(r)'
  BY DEF Holds, InDirectory

(* No step touches more of another run than its disturbance.               *)
LEMMA OwnStepLeavesAlone ==
    ASSUME DataType, NEW r \in Runs, Start(r) \/ RunStep(r)
    PROVE  \A q \in Runs : q # r => LeavesAlone(r, q)
  BY StartMoves, ReadRoundMoves, WriteRoundMoves, CleanDirMoves, CollectHumanMoves,
     ListPseudoMoves, ReadPseudoMoves, BothSourcesFailedMoves, NothingCollectedMoves,
     WriteDirMoves, WriteDirFailsMoves, ValidateImagesMoves, VersionMoves, TrainMoves
     DEF RunStep, Moves, GivesUp, Ends

LEMMA OwnStepHolds ==
    ASSUME DataType, NEW r \in Runs, Holds(r), Start(r) \/ RunStep(r)
    PROVE  Holds(r)'
  <1> USE OutsideHolds DEF Moves, InDirectory
  <1>1. CASE Start(r)
    BY <1>1, StartMoves
  <1>2. CASE ReadRound(r)
    BY <1>2, ReadRoundMoves
  <1>3. CASE WriteRound(r)
    BY <1>3, WriteRoundMoves
  <1>4. CASE CleanDir(r)
    <2>1. dir' = Empty
      BY <1>4 DEF CleanDir
    <2>2. QED
      BY <1>4, <2>1, CleanDirMoves DEF Holds
  <1>5. CASE CollectHuman(r)
    <2>1. dir' = dir
      BY <1>5 DEF CollectHuman
    <2>2. QED
      BY <1>5, <2>1, CollectHumanMoves DEF Holds, KeepsHistory
  <1>6. CASE ListPseudo(r)
    <2>1. dir' = dir
      BY <1>6 DEF ListPseudo
    <2>2. QED
      BY <1>6, <2>1, ListPseudoMoves DEF Holds, KeepsHistory
  <1>7. CASE ReadPseudo(r)
    <2>1. dir' = dir
      BY <1>7 DEF ReadPseudo
    <2>2. QED
      BY <1>7, <2>1, ReadPseudoMoves DEF Holds, KeepsHistory
  <1>8. CASE BothSourcesFailed(r) \/ WriteDirFails(r)
    BY <1>8, BothSourcesFailedMoves, WriteDirFailsMoves DEF GivesUp
  <1>9. CASE NothingCollected(r)
    BY <1>9, NothingCollectedMoves DEF Ends
  <1>10. CASE WriteDir(r)
    BY <1>10, WriteDirMoves DEF Holds, KeepsMerge
  <1>11. CASE ValidateImages(r)
    <2>1. CASE Ends(r, "judge", "refused")
      BY <2>1 DEF Ends
    <2>2. CASE /\ Moves(r, "judge", "version")
               /\ KeepsMerge(r) /\ KeepsHistory(r)
               /\ run'[r].stale \/ dir = Mixed \/ Healthy(dir)
      <3>1. dir' = dir
        BY <1>11, ValidateImagesMoves
      <3>2. ~run[r].disturbed => dir \in Splits(run[r].merged) /\ dir # Mixed
        BY <2>2, SplitContent, MergedType DEF Holds
      <3>3. QED
        BY <2>2, <3>1, <3>2 DEF Holds, KeepsMerge, KeepsHistory, Healthy
    <2>3. QED
      BY <1>11, <2>1, <2>2, ValidateImagesMoves
  <1>12. CASE Version(r)
    <2>1. ~run[r].disturbed => /\ dir \in Splits(run[r].merged)
                               /\ Content(dir) = run[r].merged
                               /\ run[r].stale \/ Healthy(dir)
      BY <1>12, VersionMoves, SplitContent, MergedType DEF Holds
    <2>2. QED
      BY <1>12, <2>1, VersionMoves DEF Holds, KeepsMerge, KeepsHistory, Healthy
  <1>13. CASE Train(r)
    BY <1>13, TrainMoves DEF Ends
  <1>14. QED
    BY <1>1, <1>2, <1>3, <1>4, <1>5, <1>6, <1>7, <1>8, <1>9, <1>10, <1>11, <1>12,
       <1>13 DEF RunStep

LEMMA DirectoryInductive ==
    /\ Init => DirectoryInv
    /\ DataType /\ DirectoryInv /\ [Next]_vars => DirectoryInv'
  <1>1. Init => DirectoryInv
    BY DEF Init, DirectoryInv, Holds, Fresh
  <1>2. ASSUME DataType, DirectoryInv, [Next]_vars PROVE DirectoryInv'
    <2>1. ASSUME NEW q \in Runs, Start(q) \/ RunStep(q) PROVE DirectoryInv'
      <3>1. Holds(q)' /\ \A r \in Runs : r # q => LeavesAlone(q, r)
        BY <1>2, <2>1, OwnStepHolds, OwnStepLeavesAlone DEF DirectoryInv
      <3>2. \A r \in Runs : r # q => Holds(r)'
        BY <1>2, <2>1, <3>1, OthersHold, TrackedStep DEF DirectoryInv
      <3>3. QED
        BY <3>1, <3>2 DEF DirectoryInv
    <2>2. CASE UNCHANGED <<run, dir, tracked>>
      BY <1>2, <2>2 DEF DirectoryInv, Holds, Healthy
    <2>3. \/ \E q \in Runs : Start(q) \/ RunStep(q)
          \/ UNCHANGED <<run, dir, tracked>>
      BY <1>2 DEF Next, trainingDataVars, vars, CompleteAnnotation, ExpireVerdict
    <2>4. QED
      BY <2>1, <2>2, <2>3
  <1>3. QED
    BY <1>1, <1>2

(* A run no other has disturbed trains on exactly what it merged in its    *)
(* last attempt, and DVC tracks that (integrate_training_data,             *)
(* _version_data).                                                         *)
THEOREM OwnMergeTrained == Spec => []TrainsOnOwnMerge
  <1>1. DataType /\ DirectoryInv => TrainsOnOwnMerge
    BY SplitContent, MergedType DEF DirectoryInv, Holds, TrainsOnOwnMerge
  <1>2. QED
    BY <1>1, DirectoryInductive, DataTyped, PTL DEF Spec

(* What G1 would refuse is trained on only under an old verdict or after   *)
(* another run's interference (validate_images).                           *)
THEOREM UnhealthyUnderStaleVerdict == Spec => []UnhealthyNeedsStaleVerdict
  <1>1. DirectoryInv => UnhealthyNeedsStaleVerdict
    BY DEF DirectoryInv, Holds, UnhealthyNeedsStaleVerdict
  <1>2. QED
    BY <1>1, DirectoryInductive, DataTyped, PTL DEF Spec

-----------------------------------------------------------------------------
(* What was available when a run started is still somewhere: with the      *)
(* annotations and the records, then in what the run has merged or listed, *)
(* or deleted, unless it could not be used.                                *)
Finds(r) ==
    /\ run[r].available \subseteq labels \cup stored
    /\ ~run[r].troubled =>
          /\ run[r].pc = "list" => run[r].available \subseteq run[r].merged \cup stored \cup Unusable
          /\ run[r].pc = "read" =>
                run[r].available \subseteq run[r].merged \cup run[r].listed
                                             \cup (stored \ bucket) \cup Unusable
          /\ run[r].pc = "write" =>
                run[r].available \subseteq run[r].merged \cup (stored \ bucket) \cup Unusable

AvailabilityInv == \A r \in Runs : Finds(r)

(* Annotations stay; a record that is gone does not come back.             *)
Grows ==
    /\ labels \subseteq labels'
    /\ stored \subseteq stored'
    /\ stored \ bucket \subseteq stored' \ bucket'

LEMMA EverythingGrows ==
    ASSUME DataType, [Next]_vars
    PROVE  Grows
  <1> USE DEF Grows
  <1>1. CASE AccumulationNext /\ UNCHANGED trainingDataVars
    BY <1>1 DEF AccumulationNext, AccumulationStep, StoreRecord, StartAccumulation,
                ListSamples, ReadSamples, Validate, Cleanup, TriggerRetraining,
                trainingDataVars
  <1>2. CASE \E r \in Runs : Start(r) \/ RunStep(r)
    <2>1. PICK r \in Runs : Start(r) \/ RunStep(r)
      BY <1>2
    <2>2. Bystanding
      BY <2>1, RunsStandBy DEF DataType, AccumulationTypeOK
    <2>3. UNCHANGED labels
      BY <2>1 DEF RunStep, Start, ReadRound, WriteRound, CleanDir, CollectHuman,
                  ListPseudo, ReadPseudo, BothSourcesFailed, NothingCollected,
                  WriteDir, WriteDirFails, ValidateImages, Version, Train
    <2>4. QED
      BY <2>2, <2>3 DEF Bystanding
  <1>3. CASE \E x \in Labels : CompleteAnnotation(x)
    BY <1>3 DEF CompleteAnnotation, accumulationVars
  <1>4. CASE ExpireVerdict \/ UNCHANGED vars
    BY <1>4 DEF ExpireVerdict, vars, accumulationVars, trainingDataVars
  <1>5. QED
    BY <1>1, <1>2, <1>3, <1>4 DEF Next

(* A run whose record only the others' steps touch goes on finding it.     *)
LEMMA StillFinds ==
    ASSUME NEW r \in Runs, Finds(r), Grows,
           run'[r].pc = run[r].pc, run'[r].listed = run[r].listed,
           run'[r].merged = run[r].merged, run'[r].available = run[r].available,
           run'[r].troubled = run[r].troubled
    PROVE  Finds(r)'
  BY DEF Finds, Grows

(* Where a run neither lists nor reads, only the first part is asked of it. *)
LEMMA FindsElsewhere ==
    ASSUME NEW r \in Runs, Finds(r), Grows,
           run'[r].pc \notin {"list", "read", "write"},
           run'[r].available \in {run[r].available, {}}
    PROVE  Finds(r)'
  BY DEF Finds, Grows

LEMMA OwnStepFinds ==
    ASSUME DataType, NEW r \in Runs, Finds(r), Grows, Start(r) \/ RunStep(r)
    PROVE  Finds(r)'
  <1> USE FindsElsewhere DEF Moves, KeepsHistory
  <1>1. CASE Start(r)
    <2>1. bucket \subseteq stored /\ UNCHANGED <<labels, stored>>
      BY <1>1 DEF Start, DataType, AccumulationTypeOK
    <2>2. run'[r].pc = "readRound" /\ run'[r].available \subseteq labels \cup stored
      BY <1>1, <2>1, StartMoves
    <2>3. QED
      BY <2>1, <2>2 DEF Finds
  <1>2. CASE ReadRound(r)
    BY <1>2, ReadRoundMoves
  <1>3. CASE WriteRound(r)
    BY <1>3, WriteRoundMoves
  <1>4. CASE CleanDir(r)
    BY <1>4, CleanDirMoves
  <1>5. CASE CollectHuman(r)
    <2>1. UNCHANGED <<labels, stored, bucket>>
      BY <1>5 DEF CollectHuman
    <2>2. QED
      BY <1>5, <2>1, CollectHumanMoves DEF Finds
  <1>6. CASE ListPseudo(r)
    <2>1. UNCHANGED <<labels, stored, bucket>>
      BY <1>6 DEF ListPseudo, accumulationVars
    <2>2. QED
      BY <1>6, <2>1, ListPseudoMoves DEF Finds, KeepsMerge, KeepsTrouble
  <1>7. CASE ReadPseudo(r)
    <2>1. UNCHANGED <<labels, stored, bucket>>
      BY <1>7 DEF ReadPseudo
    <2>2. QED
      BY <1>7, <2>1, ReadPseudoMoves DEF Finds, KeepsTrouble
  <1>8. CASE BothSourcesFailed(r) \/ WriteDirFails(r)
    BY <1>8, BothSourcesFailedMoves, WriteDirFailsMoves DEF GivesUp
  <1>9. CASE NothingCollected(r)
    BY <1>9, NothingCollectedMoves DEF Ends
  <1>10. CASE WriteDir(r)
    BY <1>10, WriteDirMoves
  <1>11. CASE ValidateImages(r)
    BY <1>11, ValidateImagesMoves DEF Ends
  <1>12. CASE Version(r)
    BY <1>12, VersionMoves
  <1>13. CASE Train(r)
    BY <1>13, TrainMoves DEF Ends
  <1>14. QED
    BY <1>1, <1>2, <1>3, <1>4, <1>5, <1>6, <1>7, <1>8, <1>9, <1>10, <1>11, <1>12,
       <1>13 DEF RunStep

LEMMA AvailabilityInductive ==
    /\ Init => AvailabilityInv
    /\ DataType /\ AvailabilityInv /\ [Next]_vars => AvailabilityInv'
  <1>1. Init => AvailabilityInv
    BY DEF Init, AvailabilityInv, Finds, Fresh
  <1>2. ASSUME DataType, AvailabilityInv, [Next]_vars PROVE AvailabilityInv'
    <2>1. Grows
      BY <1>2, EverythingGrows
    <2>2. ASSUME NEW q \in Runs, Start(q) \/ RunStep(q) PROVE AvailabilityInv'
      <3>1. Finds(q)'
        BY <1>2, <2>1, <2>2, OwnStepFinds DEF AvailabilityInv
      <3>2. \A r \in Runs : r # q => LeavesAlone(q, r)
        BY <1>2, <2>2, OwnStepLeavesAlone
      <3>3. \A r \in Runs : r # q => Finds(r)'
        BY <1>2, <2>1, <3>2, StillFinds DEF AvailabilityInv, LeavesAlone
      <3>4. QED
        BY <3>1, <3>3 DEF AvailabilityInv
    <2>3. CASE UNCHANGED run
      BY <1>2, <2>1, <2>3, StillFinds DEF AvailabilityInv
    <2>4. (\E q \in Runs : Start(q) \/ RunStep(q)) \/ UNCHANGED run
      BY <1>2 DEF Next, trainingDataVars, vars, CompleteAnnotation, ExpireVerdict
    <2>5. QED
      BY <2>2, <2>3, <2>4
  <1>3. QED
    BY <1>1, <1>2

(* Of what was there when a run started, it leaves out, unless a call      *)
(* failed, only what has no image or class and what the accumulation flow  *)
(* has deleted since, however the two flows interleave                     *)
(* (integrate_training_data).                                              *)
THEOREM AvailableIsFound == Spec => []NothingAvailableIsMissed
  <1>1. AvailabilityInv => NothingAvailableIsMissed
    BY DEF AvailabilityInv, Finds, NothingAvailableIsMissed
  <1>2. QED
    BY <1>1, AvailabilityInductive, DataTyped, PTL DEF Spec

-----------------------------------------------------------------------------
LEMMA MaxIsInt ==
    ASSUME NEW m \in Int
    PROVE  Max({1, m}) \in Int /\ Max({1, m}) >= 1
  <1>1. \E x \in {1, m} : \A y \in {1, m} : x >= y
    <2>1. CASE m >= 1
      BY <2>1
    <2>2. CASE ~(m >= 1)
      BY <2>2
    <2>3. QED
      BY <2>1, <2>2
  <1>2. /\ Max({1, m}) \in {1, m}
        /\ \A y \in {1, m} : Max({1, m}) >= y
    BY <1>1 DEF Max
  <1>3. QED
    BY <1>2

(* split_idx: at least one image to train on; and of two or more, one to   *)
(* validate with.                                                          *)
LEMMA TrainCountBounds ==
    ASSUME NEW n \in Nat
    PROVE  /\ n >= 1 => TrainCount(n) # 0
           /\ n >= 2 => TrainCount(n) # n
  <1> DEFINE idx == Max({1, (n * TrainPercent) \div 100})
  <1>1. TrainPercent \in Nat
    OBVIOUS
  <1>2. n * TrainPercent \in Nat
    BY <1>1
  <1>3. (n * TrainPercent) \div 100 \in Int
    BY <1>2
  <1>4. idx \in Int /\ idx >= 1
    BY <1>3, MaxIsInt
  <1>5. TrainCount(n) = IF idx >= n /\ n > 1 THEN n - 1 ELSE idx
    BY DEF TrainCount
  <1> HIDE DEF idx
  <1>6. QED
    BY <1>4, <1>5

LEMMA ClassCounts ==
    ASSUME NEW S \in SUBSET Items, NEW c
    PROVE  /\ IsFiniteSet(OfClass(S, c))
           /\ Cardinality(OfClass(S, c)) \in Nat
           /\ Cardinality(OfClass(S, c)) = 0 <=> OfClass(S, c) = {}
  <1>1. IsFiniteSet(Items)
    BY FS_Union DEF Items
  <1>2. OfClass(S, c) \in SUBSET Items
    BY DEF OfClass
  <1>3. IsFiniteSet(OfClass(S, c))
    BY <1>1, <1>2, FS_Subset
  <1>4. QED
    BY <1>3, FS_CardinalityType, FS_EmptySet

(* Whatever the order the shuffle has left them in.                        *)
LEMMA SplitCovers ==
    ASSUME NEW S \in SUBSET Items, NEW d \in Splits(S), NEW x \in S
    PROVE  LET c == ClassOf[x]
           IN  /\ OfClass(d.train, c) # {}
               /\ Cardinality(OfClass(S, c)) >= 2 => OfClass(d.val, c) # {}
  <1> DEFINE c == ClassOf[x]
             n == Cardinality(OfClass(S, c))
  <1>1. /\ d.train \subseteq S /\ d.val = S \ d.train
        /\ Cardinality(OfClass(d.train, c)) = TrainCount(n)
    BY DEF Splits
  <1>2. n \in Nat /\ n # 0
    BY ClassCounts DEF OfClass
  <1>3. TrainCount(n) # 0 /\ (n >= 2 => TrainCount(n) # n)
    BY <1>2, TrainCountBounds
  <1>4. OfClass(d.train, c) # {}
    BY <1>1, <1>3, ClassCounts
  <1>5. OfClass(d.val, c) = {} => OfClass(d.train, c) = OfClass(S, c)
    BY <1>1 DEF OfClass
  <1>6. QED
    BY <1>1, <1>3, <1>4, <1>5

(* Every class a run trains on is trained on, and validated on if it has   *)
(* two images, for every train_val_split and every size of the classes     *)
(* (integrate_training_data).                                              *)
THEOREM ClassesCovered == Spec => []SplitCoversClasses
  <1>1. DataType /\ DirectoryInv => SplitCoversClasses
    <2> SUFFICES ASSUME DataType, DirectoryInv, NEW r \in Runs, ~run[r].disturbed,
                        run[r].pc \in {"judge", "version", "train"}
                 PROVE  /\ dir.train \cap dir.val = {}
                        /\ \A c \in {ClassOf[x] : x \in run[r].merged} :
                              /\ OfClass(dir.train, c) # {}
                              /\ Cardinality(OfClass(run[r].merged, c)) >= 2
                                    => OfClass(dir.val, c) # {}
      BY DEF SplitCoversClasses
    <2>1. run[r].merged \in SUBSET Items /\ dir \in Splits(run[r].merged)
      BY MergedType DEF DirectoryInv, Holds
    <2>2. dir.train \cap dir.val = {}
      BY <2>1 DEF Splits
    <2>3. QED
      BY <2>1, <2>2, SplitCovers
  <1>2. QED
    BY <1>1, DirectoryInductive, DataTyped, PTL DEF Spec

-----------------------------------------------------------------------------
(* The counter counts the runs that have written their round, and the      *)
(* writes that failed.                                                     *)
Written == {r \in Runs : run[r].pc \in Counted}

CounterInv ==
    /\ counter <= Cardinality(Written) + faults
    /\ \A r \in Runs :
          /\ run[r].pc = "writeRound" => run[r].round <= Cardinality(Written) + faults + 1
          /\ run[r].round <= Cardinality(Runs) + MaxFaults

LEMMA WrittenCount ==
    /\ Cardinality(Runs) \in Nat
    /\ IsFiniteSet(Written)
    /\ Cardinality(Written) \in Nat
    /\ Cardinality(Written) <= Cardinality(Runs)
    /\ \A r \in Runs \ Written :
          /\ Cardinality(Written) + 1 <= Cardinality(Runs)
          /\ Cardinality(Written \cup {r}) = Cardinality(Written) + 1
  <1>1. Cardinality(Runs) \in Nat
    BY FS_CardinalityType
  <1>2. Written \in SUBSET Runs
    BY DEF Written
  <1>3. IsFiniteSet(Written) /\ Cardinality(Written) <= Cardinality(Runs)
    BY <1>2, FS_Subset
  <1>4. Cardinality(Written) \in Nat
    BY <1>3, FS_CardinalityType
  <1>5. ASSUME NEW r \in Runs \ Written
        PROVE  /\ Cardinality(Written \cup {r}) = Cardinality(Written) + 1
               /\ Cardinality(Written) + 1 <= Cardinality(Runs)
    <2>1. Cardinality(Written \cup {r}) = Cardinality(Written) + 1
      BY <1>3, <1>5, FS_AddElement
    <2>2. Written \cup {r} \in SUBSET Runs
      BY <1>2, <1>5
    <2>3. Cardinality(Written \cup {r}) <= Cardinality(Runs)
      BY <2>2, FS_Subset
    <2>4. QED
      BY <2>1, <2>3
  <1>6. QED
    BY <1>1, <1>3, <1>4, <1>5

(* No step forgives a fault, and a failed write of the counter is one.     *)
LEMMA FaultsGrow ==
    ASSUME DataType, [Next]_vars
    PROVE  faults \in Nat /\ faults' \in Nat /\ faults' >= faults /\ faults <= MaxFaults
  <1>1. faults \in 0..MaxFaults
    BY DEF DataType, AccumulationTypeOK
  <1>2. CASE AccumulationNext
    BY <1>1, <1>2, FaultBound
       DEF AccumulationNext, AccumulationStep, StoreRecord, StartAccumulation, ListSamples,
           ReadSamples, Validate, Cleanup, TriggerRetraining
  <1>3. CASE ~AccumulationNext
    BY <1>1, <1>3, OthersStandBy DEF Bystanding
  <1>4. QED
    BY <1>1, <1>2, <1>3

LEMMA CounterStep ==
    ASSUME DataType, CounterInv, [Next]_vars, NEW r \in Runs, Start(r) \/ RunStep(r)
    PROVE  CounterInv'
  <1> USE DEF CounterInv, Moves, LeavesAlone
  <1> DEFINE n == Cardinality(Written)
             m == Cardinality(Runs)
  <1>1. /\ n \in Nat /\ m \in Nat /\ n <= m /\ counter \in Nat /\ MaxFaults \in Nat
        /\ faults \in Nat /\ faults' \in Nat /\ faults' >= faults /\ faults <= MaxFaults
        /\ \A q \in Runs : run[q].round \in Nat
    BY WrittenCount, FaultsGrow DEF DataType, RunRecord
  <1>2. "writeRound" \notin Counted /\ "readRound" \notin Counted /\ "idle" \notin Counted
    BY DEF Counted, InDirectory, Ended
  <1> HIDE DEF n, m
  <1>3. ASSUME NEW from, NEW to, Moves(r, from, to), from \in Counted <=> to \in Counted
        PROVE  Cardinality(Written)' = n
    <2>1. \A q \in Runs : run'[q].pc \in Counted <=> run[q].pc \in Counted
      BY <1>3
    <2>2. Written' = Written
      BY <2>1 DEF Written
    <2>3. QED
      BY <2>2 DEF n
  <1>4. CASE Start(r)
    <2>1. Moves(r, "idle", "readRound") /\ run'[r].round = 0
      BY <1>4, StartMoves
    <2>2. UNCHANGED <<counter, faults>>
      BY <1>4 DEF Start
    <2>3. Cardinality(Written)' = n
      BY <1>2, <1>3, <2>1
    <2>4. QED
      BY <1>1, <2>1, <2>2, <2>3 DEF n, m
  <1>5. CASE ReadRound(r)
    <2>1. Moves(r, "readRound", "writeRound")
      BY <1>5, ReadRoundMoves
    <2>2. PICK base \in {counter, 0} : run'[r].round = base + 1
      BY <1>5, ReadRoundMoves
    <2>3. UNCHANGED counter
      BY <1>5 DEF ReadRound
    <2>4. Cardinality(Written)' = n
      BY <1>2, <1>3, <2>1
    <2>5. n + 1 <= m
      <3>1. run[r].pc = "readRound"
        BY <2>1
      <3>2. r \in Runs \ Written
        BY <1>2, <3>1 DEF Written
      <3>3. QED
        BY <3>2, WrittenCount DEF n, m
    <2>6. run'[r].round <= n + faults + 1 /\ run'[r].round <= m + MaxFaults
      BY <1>1, <2>2, <2>5 DEF n
    <2>7. \A q \in Runs : q # r => run'[q].pc = run[q].pc /\ run'[q].round = run[q].round
      BY <2>1
    <2>8. ASSUME NEW q \in Runs
          PROVE  /\ run'[q].pc = "writeRound" => run'[q].round <= n + faults' + 1
                 /\ run'[q].round <= m + MaxFaults
      <3>1. CASE q = r
        BY <1>1, <2>2, <2>6, <3>1
      <3>2. CASE q # r
        <4>1. /\ run[q].pc = "writeRound" => run[q].round <= n + faults + 1
              /\ run[q].round <= m + MaxFaults
          BY DEF n, m
        <4>2. /\ run'[q].pc = run[q].pc
              /\ run'[q].round = run[q].round
          BY <2>7, <3>2
        <4>3. QED
          BY <1>1, <4>1, <4>2
      <3>3. QED
        BY <3>1, <3>2
    <2>9. counter' <= n + faults'
      BY <1>1, <2>3 DEF n
    <2>10. QED
      BY <2>4, <2>8, <2>9 DEF m
  <1>6. CASE WriteRound(r)
    <2>1. run[r].pc = "writeRound" /\ run[r].round <= n + faults + 1 /\ run'[r].round = run[r].round
      BY <1>6, WriteRoundMoves DEF WriteRound, KeepsRound, n
    <2>2. CASE Moves(r, "writeRound", "clean") /\ counter' = run[r].round
      <3>1. "clean" \in Counted
        BY DEF Counted
      <3>2. \A q \in Runs : run'[q].pc \in Counted <=> (run[q].pc \in Counted \/ q = r)
        BY <2>2, <3>1
      <3>3. Written' = Written \cup {r} /\ r \notin Written
        BY <1>2, <2>1, <3>2 DEF Written
      <3>4. Cardinality(Written)' = n + 1
        BY <3>3, WrittenCount DEF n
      <3>5. QED
        BY <1>1, <2>1, <2>2, <3>4 DEF n, m
    <2>3. CASE Moves(r, "writeRound", "readRound") /\ counter' \in {counter, run[r].round}
      <3>1. Cardinality(Written)' = n
        BY <1>2, <1>3, <2>3
      <3>2. faults' = faults + 1
        <4>1. run'[r].pc # "clean"
          BY <2>3
        <4>2. Goto(r, "clean") => run'[r].pc = "clean"
          <5>1. run[r] \in RunRecord
            BY DEF DataType
          <5>2. [run[r] EXCEPT !.pc = "clean"] \in RunRecord
            BY <5>1 DEF RunRecord, Locations
          <5>3. Goto(r, "clean") => Become(r, [run[r] EXCEPT !.pc = "clean"])
            BY DEF Goto, Become, DataType
          <5>4. Goto(r, "clean") => run'[r] = [run[r] EXCEPT !.pc = "clean"]
            BY <5>2, <5>3, BecomeType
          <5>5. QED
            BY <5>1, <5>4 DEF RunRecord
        <4>3. QED
          BY <1>6, <4>1, <4>2 DEF WriteRound, Fault
      <3>3. QED
        BY <1>1, <2>1, <2>3, <3>1, <3>2 DEF n, m
    <2>4. QED
      BY <1>6, <2>2, <2>3, WriteRoundMoves
  <1>7. CASE RunStep(r) /\ ~ReadRound(r) /\ ~WriteRound(r)
    <2>1. PICK from \in Counted, to \in Counted : Moves(r, from, to)
      BY <1>7, CountedStep
    <2>2. run'[r].round = run[r].round /\ UNCHANGED counter
      BY <1>7, CountedStep DEF KeepsRound
    <2>3. Cardinality(Written)' = n
      BY <1>3, <2>1
    <2>4. run'[r].pc # "writeRound"
      BY <1>2, <2>1
    <2>5. QED
      BY <1>1, <2>1, <2>2, <2>3, <2>4 DEF n, m
  <1>8. QED
    BY <1>4, <1>5, <1>6, <1>7 DEF RunStep

LEMMA CounterInductive ==
    /\ Init => CounterInv
    /\ DataType /\ CounterInv /\ [Next]_vars => CounterInv'
  <1>1. ASSUME Init
        PROVE  CounterInv
    <2>1. counter = 0 /\ faults \in Nat /\ \A r \in Runs : run[r] = Fresh
      BY <1>1 DEF Init, AccumulationInit
    <2>2. QED
      BY <2>1, WrittenCount DEF CounterInv, Fresh
  <1>2. ASSUME DataType, CounterInv, [Next]_vars
        PROVE  CounterInv'
    <2>1. CASE \E r \in Runs : Start(r) \/ RunStep(r)
      BY <1>2, <2>1, CounterStep
    <2>2. CASE UNCHANGED <<run, counter>>
      <3>1. Written' = Written
        BY <2>2 DEF Written
      <3>2. /\ faults \in Nat /\ faults' \in Nat /\ faults' >= faults
            /\ Cardinality(Written) \in Nat /\ counter \in Nat
            /\ \A r \in Runs : run[r].round \in Nat
        BY <1>2, WrittenCount, FaultsGrow DEF DataType, RunRecord
      <3>3. QED
        BY <1>2, <2>2, <3>1, <3>2 DEF CounterInv
    <2>3. \/ \E r \in Runs : Start(r) \/ RunStep(r)
          \/ UNCHANGED <<run, counter>>
      BY <1>2 DEF Next, trainingDataVars, vars, CompleteAnnotation, ExpireVerdict
    <2>4. QED
      BY <2>1, <2>2, <2>3
  <1>3. QED
    BY <1>1, <1>2

(* Every variable keeps its type, and the round counter runs ahead of the  *)
(* runs that have taken a number by the failed writes only.                *)
THEOREM TypeCorrect == Spec => []TypeOK
  <1>1. DataType /\ CounterInv => TypeOK
    <2> SUFFICES ASSUME DataType, CounterInv
                 PROVE  TypeOK
      OBVIOUS
    <2>1. counter \in 0..(Cardinality(Runs) + MaxFaults)
      BY WrittenCount DEF DataType, AccumulationTypeOK, CounterInv
    <2>2. ASSUME NEW r \in Runs
          PROVE  /\ run[r].pc \in {"idle", "readRound", "writeRound", "clean"}
                                      \cup InDirectory \cup Ended
                 /\ run[r].round \in 0..(Cardinality(Runs) + MaxFaults)
                 /\ run[r].listed \subseteq Records
                 /\ run[r].merged \cup run[r].available \subseteq Items
                 /\ run[r].down \subseteq {"human", "pseudo"}
                 /\ run[r].cause \in Accumulations \cup {NoCause}
      <3>1. run[r] \in RunRecord
        BY DEF DataType
      <3>2. run[r].pc \in Locations /\ run[r].round \in Nat
        BY <3>1 DEF RunRecord
      <3>3. run[r].round \in 0..(Cardinality(Runs) + MaxFaults)
        BY <3>2, WrittenCount DEF CounterInv
      <3>4. run[r].pc \in {"idle", "readRound", "writeRound", "clean"} \cup InDirectory \cup Ended
        BY <3>2 DEF Locations, InDirectory, Ended
      <3>5. QED
        BY <3>1, <3>3, <3>4 DEF RunRecord
    <2>3. QED
      BY <2>1, <2>2 DEF DataType, TypeOK
  <1>2. QED
    BY <1>1, CounterInductive, DataTyped, PTL DEF Spec

=============================================================================
