--------------------------- MODULE DataAccumulation ---------------------------
(***************************************************************************)
(* The data-accumulation flow over the bucket the accumulators fill: fetch *)
(* the pseudo-labelled records, judge them as a whole, delete them, and    *)
(* ask for a retraining.  A record stands for an object of its own; the    *)
(* accumulators keep storing records throughout, and runs of the flow may  *)
(* overlap.                                                                *)
(***************************************************************************)
EXTENDS Integers, FiniteSets, FiniteSetsExt

CONSTANTS
    Records,             \* pseudo-labelled records that may be accumulated
    Early,               \* the records accumulated before the first step
    Classes,
    ClassOf,             \* item -> its class
    Accumulations,       \* runs of the flow
    MinSamples,          \* min_samples
    MaxClassPercent,     \* the ceiling on one class, 80
    MaxPseudoPercent,    \* max_pseudo_label_ratio, in percent
    ExistingDataCount,   \* existing_data_count
    FaultyCalls,         \* what may go wrong: a subset of Calls
    MaxFaults            \* bound: how often it does

(* Of this flow: fetch, the listing or reading of objects; deleteSome,     *)
(* keys reported as not deleted; delete, the call itself; trigger, a       *)
(* PrefectException; settings, a ValidationError.  The rest are those of   *)
(* TrainingData.                                                           *)
Calls == {"fetch", "deleteSome", "delete", "trigger", "settings",
          "readRound", "writeRound", "export", "image", "read", "write",
          "version"}

ASSUME AccumulationAssumption ==
    /\ IsFiniteSet(Records) /\ Early \subseteq Records
    /\ FaultyCalls \subseteq Calls
    /\ {MinSamples, MaxClassPercent, MaxPseudoPercent, ExistingDataCount,
        MaxFaults} \subseteq Nat

(* Each run may make an object vanish for each other one, so with three    *)
(* runs the two retries of a fetch suffice.  No theorem uses this bound.   *)
ASSUME FetchRetriesSuffice == Cardinality(Accumulations) <= 3

VARIABLES
    bucket,      \* the records stored under the accumulation prefix
    stored,      \* history: the records that have ever been
    step,        \* run -> where it is
    fetched,     \* run -> the records it has listed, then read
    accepted,    \* history: run -> the records its gate has passed
    requests,    \* runs whose retraining Prefect has yet to start
    faults       \* how many calls have failed, of MaxFaults

accumulationVars == <<bucket, stored, step, fetched, accepted, requests, faults>>

-----------------------------------------------------------------------------
Fault(call) ==
    /\ call \in FaultyCalls
    /\ faults < MaxFaults
    /\ faults' = faults + 1

NoFault == UNCHANGED faults

Proceed(a, l) == step' = [step EXCEPT ![a] = l]

OfClass(S, c) == {x \in S : ClassOf[x] = c}

(* validate_accumulation_quality: enough of them, no class above its       *)
(* share, no more pseudo-labels than their share of what would be trained  *)
(* on.                                                                     *)
PassesAccumulation(S) ==
    /\ Cardinality(S) >= MinSamples
    /\ \A c \in Classes :
          100 * Cardinality(OfClass(S, c)) <= MaxClassPercent * Cardinality(S)
    /\ 100 * Cardinality(S)
          <= MaxPseudoPercent * (ExistingDataCount + Cardinality(S))

(* Bound: a behaviour may begin with fewer failures left to it.            *)
AccumulationInit ==
    /\ bucket = Early
    /\ stored = Early
    /\ step = [a \in Accumulations |-> "idle"]
    /\ fetched = [a \in Accumulations |-> {}]
    /\ accepted = [a \in Accumulations |-> {}]
    /\ requests = {}
    /\ faults \in 0..MaxFaults

(* An accumulator flushes.                                                 *)
StoreRecord(x) ==
    /\ x \notin stored
    /\ bucket' = bucket \cup {x}
    /\ stored' = stored \cup {x}
    /\ UNCHANGED <<step, fetched, accepted, requests, faults>>

StartAccumulation(a) ==
    /\ step[a] = "idle"
    /\ Proceed(a, "list")
    /\ UNCHANGED <<bucket, stored, fetched, accepted, requests, faults>>

(* fetch_accumulated_samples lists, then reads object by object; one that  *)
(* has vanished meanwhile starts the task over.                            *)
ListSamples(a) ==
    /\ step[a] = "list"
    /\ fetched' = [fetched EXCEPT ![a] = bucket]
    /\ \/ Proceed(a, "read") /\ NoFault
       \/ Proceed(a, "failed") /\ Fault("fetch")
    /\ UNCHANGED <<bucket, stored, accepted, requests>>

ReadSamples(a) ==
    /\ step[a] = "read"
    /\ Proceed(a, IF ~(fetched[a] \subseteq bucket) THEN "list"
                  ELSE IF fetched[a] = {} THEN "done" ELSE "validate")
    /\ UNCHANGED <<bucket, stored, fetched, accepted, requests, faults>>

(* Mutant: the gate warns and the flow goes on.                            *)
ValidateOnly(a) ==
    /\ step[a] = "validate"
    /\ accepted' = [accepted EXCEPT ![a] = IF PassesAccumulation(fetched[a])
                                           THEN fetched[a] ELSE {}]
    /\ Proceed(a, "cleanup")
    /\ UNCHANGED <<bucket, stored, fetched, requests, faults>>

(* A refused accumulation leaves its files where they are.                 *)
Validate(a) ==
    /\ step[a] = "validate"
    /\ \/ /\ PassesAccumulation(fetched[a])
          /\ accepted' = [accepted EXCEPT ![a] = fetched[a]]
          /\ Proceed(a, "cleanup")
       \/ /\ ~PassesAccumulation(fetched[a])
          /\ Proceed(a, "done")
          /\ UNCHANGED accepted
    /\ UNCHANGED <<bucket, stored, fetched, requests, faults>>

(* cleanup_accumulated: the keys of what was fetched.  Keys that could not *)
(* be deleted are warned about; a call that fails twice ends the run,      *)
(* whatever it has deleted.                                                *)
Cleanup(a) ==
    /\ step[a] = "cleanup"
    /\ \/ /\ bucket' = bucket \ fetched[a]
          /\ Proceed(a, "trigger")
          /\ NoFault
       \/ \E kept \in SUBSET (fetched[a] \cap bucket) :
             /\ bucket' = (bucket \ fetched[a]) \cup kept
             /\ \/ Fault("deleteSome") /\ Proceed(a, "trigger")
                \/ Fault("delete") /\ Proceed(a, "failed")
    /\ UNCHANGED <<stored, fetched, accepted, requests>>

(* _trigger_retraining swallows what Prefect raises, but not what the      *)
(* settings do.                                                            *)
TriggerRetraining(a) ==
    /\ step[a] = "trigger"
    /\ \/ requests' = requests \cup {a} /\ Proceed(a, "done") /\ NoFault
       \/ Fault("trigger") /\ Proceed(a, "done") /\ UNCHANGED requests
       \/ Fault("settings") /\ Proceed(a, "failed") /\ UNCHANGED requests
    /\ UNCHANGED <<bucket, stored, fetched, accepted>>

AccumulationStep(a) ==
    \/ ListSamples(a)
    \/ ReadSamples(a)
    \/ Validate(a)
    \/ Cleanup(a)
    \/ TriggerRetraining(a)

AccumulationNext ==
    \/ \E x \in Records : StoreRecord(x)
    \/ \E a \in Accumulations : StartAccumulation(a) \/ AccumulationStep(a)

-----------------------------------------------------------------------------
AccumulationTypeOK ==
    /\ bucket \subseteq stored
    /\ stored \subseteq Records
    /\ step \in [Accumulations -> {"idle", "list", "read", "validate",
                                   "cleanup", "trigger", "done", "failed"}]
    /\ fetched \in [Accumulations -> SUBSET stored]
    /\ accepted \in [Accumulations -> SUBSET stored]
    /\ requests \subseteq Accumulations
    /\ faults \in 0..MaxFaults

(* What is deleted has passed the gate: a record that is stored while the  *)
(* flow fetches, validates or deletes stays for the next run, and so does  *)
(* what the gate refused, however runs overlap and deletions fail.         *)
OnlyAcceptedIsDeleted ==
    stored \ bucket \subseteq UNION {accepted[a] : a \in Accumulations}

=============================================================================
