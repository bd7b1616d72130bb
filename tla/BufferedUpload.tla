--------------------------- MODULE BufferedUpload ---------------------------
(***************************************************************************)
(* The buffer-and-upload protocol that PredictionLogger and                *)
(* AutoAccumulator share.  Module AutoAccumulator adds the images of       *)
(* samples; where no sample carries one it is the logger.                  *)
(*                                                                         *)
(* Threads append records to a shared buffer under a lock.  The thread     *)
(* that fills it takes the whole buffer, uploads it outside the lock as    *)
(* one object, and puts the records back when the upload fails.  A step is *)
(* one critical section or one upload.                                     *)
(***************************************************************************)
EXTENDS Integers, Sequences, FiniteSets

CONSTANTS
    Threads,         \* the threads of the process that add records
    Samples,         \* the records, each of which is added once
    Threshold,       \* flush_threshold
    FaultyCalls,     \* what may go wrong: a subset of Calls
    MaxFaults,       \* bound: how often it does
    MaxProcesses     \* bound: processes, one after the other

(* put: rejected, nothing stored; unknown: stored, but the answer is lost; *)
(* crash: the process is killed; the last two concern images only.         *)
Calls == {"put", "unknown", "crash", "image", "imageUnknown"}

ASSUME BufferAssumption ==
    /\ Threshold \in Nat \ {0}
    /\ FaultyCalls \subseteq Calls
    /\ MaxFaults \in Nat
    /\ MaxProcesses \in Nat \ {0}

VARIABLES
    buffer,      \* _buffer
    pc,          \* where each thread is
    batch,       \* thread -> the records it took out of the buffer
    stored,      \* record -> how many objects that hold it were put
    accepted,    \* the records that were added
    unknown,     \* uploads that were stored although the caller saw an error
    stopping,    \* has the lifespan begun to shut down?
    process,     \* the number of the serving process
    faults       \* what has gone wrong so far

memoryVars == <<buffer, pc, batch, stopping>>
uploadVars == <<memoryVars, stored, accepted, unknown, process, faults>>

-----------------------------------------------------------------------------
Elements(s) == {s[i] : i \in DOMAIN s}
Occurrences(s, x) == Cardinality({i \in DOMAIN s : s[i] = x})

Goto(t, l) == pc' = [pc EXCEPT ![t] = l]
AllIdle == \A t \in Threads : pc[t] = "idle"

Fault(call) ==
    /\ call \in FaultyCalls
    /\ faults < MaxFaults
    /\ faults' = faults + 1

InitMemory ==
    /\ buffer = <<>>
    /\ pc = [t \in Threads |-> "idle"]
    /\ batch = [t \in Threads |-> <<>>]
    /\ stopping = FALSE

InitUpload ==
    /\ InitMemory
    /\ stored = [s \in Samples |-> 0]
    /\ accepted = {}
    /\ unknown = 0
    /\ process = 1
    /\ faults = 0

-----------------------------------------------------------------------------
(* Mutant: the buffer must exceed the threshold.                           *)
AppendRecordBeyond(t, s) ==
    /\ buffer' = Append(buffer, s)
    /\ accepted' = accepted \cup {s}
    /\ Goto(t, IF Len(buffer) + 1 > Threshold THEN "flush" ELSE "idle")
    /\ UNCHANGED <<batch, stopping, stored, unknown, process, faults>>

(* The critical section of an addition: the flush it may decide on comes   *)
(* after the lock is released.                                             *)
AppendRecord(t, s) ==
    /\ buffer' = Append(buffer, s)
    /\ accepted' = accepted \cup {s}
    /\ Goto(t, IF Len(buffer) + 1 >= Threshold THEN "flush" ELSE "idle")
    /\ UNCHANGED <<batch, stopping, stored, unknown, process, faults>>

(* PredictionLogger.log.                                                   *)
Log(t, s) ==
    /\ pc[t] = "idle"
    /\ ~stopping
    /\ s \notin accepted
    /\ AppendRecord(t, s)

(* Mutant: the buffer is cleared only once the upload has succeeded.       *)
TakeBatchCopy(t) ==
    /\ pc[t] = "flush"
    /\ \/ buffer = <<>> /\ Goto(t, "idle") /\ UNCHANGED <<buffer, batch>>
       \/ /\ buffer # <<>>
          /\ batch' = [batch EXCEPT ![t] = buffer]
          /\ Goto(t, "put")
          /\ UNCHANGED buffer
    /\ UNCHANGED <<stopping, stored, accepted, unknown, process, faults>>

(* Mutant: an empty buffer is uploaded like any other.                     *)
TakeBatchEmpty(t) ==
    /\ pc[t] = "flush"
    /\ batch' = [batch EXCEPT ![t] = buffer]
    /\ buffer' = <<>>
    /\ Goto(t, "put")
    /\ UNCHANGED <<stopping, stored, accepted, unknown, process, faults>>

(* Mutant: a flush that finds the buffer empty waits for records.          *)
TakeBatchWaits(t) ==
    /\ pc[t] = "flush"
    /\ buffer # <<>>
    /\ batch' = [batch EXCEPT ![t] = buffer]
    /\ buffer' = <<>>
    /\ Goto(t, "put")
    /\ UNCHANGED <<stopping, stored, accepted, unknown, process, faults>>

(* flush, its first critical section.                                      *)
TakeBatch(t) ==
    /\ pc[t] = "flush"
    /\ \/ buffer = <<>> /\ Goto(t, "idle") /\ UNCHANGED <<buffer, batch>>
       \/ /\ buffer # <<>>
          /\ batch' = [batch EXCEPT ![t] = buffer]
          /\ buffer' = <<>>
          /\ Goto(t, "put")
    /\ UNCHANGED <<stopping, stored, accepted, unknown, process, faults>>

Store(t) ==
    stored' = [s \in Samples |-> stored[s] + Occurrences(batch[t], s)]

(* Mutant: the buffer is cleared when the upload has succeeded.            *)
PutBatchClears(t) ==
    /\ pc[t] = "put"
    /\ Store(t)
    /\ batch' = [batch EXCEPT ![t] = <<>>]
    /\ buffer' = <<>>
    /\ Goto(t, "idle")
    /\ UNCHANGED <<stopping, accepted, unknown, process, faults>>

(* put_object under a fresh key: done, refused, or done with its answer    *)
(* lost.                                                                   *)
PutBatch(t) ==
    /\ pc[t] = "put"
    /\ \/ /\ Store(t)
          /\ batch' = [batch EXCEPT ![t] = <<>>]
          /\ Goto(t, "idle")
          /\ UNCHANGED <<unknown, faults>>
       \/ /\ Goto(t, "requeue")
          /\ \/ Fault("put") /\ UNCHANGED <<stored, unknown>>
             \/ Fault("unknown") /\ Store(t) /\ unknown' = unknown + 1
          /\ UNCHANGED batch
    /\ UNCHANGED <<buffer, stopping, accepted, process>>

(* Mutant: what was added during the upload is overwritten.                *)
RequeueOver(t) ==
    /\ pc[t] = "requeue"
    /\ buffer' = batch[t]
    /\ batch' = [batch EXCEPT ![t] = <<>>]
    /\ Goto(t, "idle")
    /\ UNCHANGED <<stopping, stored, accepted, unknown, process, faults>>

(* flush, its second critical section: the records return to the front of  *)
(* whatever has been added meanwhile; nothing flushes them until the next  *)
(* addition.                                                               *)
Requeue(t) ==
    /\ pc[t] = "requeue"
    /\ buffer' = batch[t] \o buffer
    /\ batch' = [batch EXCEPT ![t] = <<>>]
    /\ Goto(t, "idle")
    /\ UNCHANGED <<stopping, stored, accepted, unknown, process, faults>>

-----------------------------------------------------------------------------
(* The lifespan's shutdown: once no request is being served, one last      *)
(* flush, and the process ends with whatever that leaves in the buffer.    *)
Shutdown(t) ==
    /\ AllIdle
    /\ ~stopping
    /\ process < MaxProcesses
    /\ stopping' = TRUE
    /\ Goto(t, "flush")
    /\ UNCHANGED <<buffer, batch, stored, accepted, unknown, process, faults>>

EndProcess ==
    /\ process < MaxProcesses
    /\ process' = process + 1
    /\ buffer' = <<>>
    /\ pc' = [t \in Threads |-> "idle"]
    /\ batch' = [t \in Threads |-> <<>>]
    /\ stopping' = FALSE
    /\ UNCHANGED <<stored, accepted, unknown>>

Exit ==
    /\ stopping
    /\ AllIdle
    /\ EndProcess
    /\ UNCHANGED faults

Crash ==
    /\ Fault("crash")
    /\ EndProcess

-----------------------------------------------------------------------------
Flush(t) == TakeBatch(t) \/ PutBatch(t) \/ Requeue(t)

-----------------------------------------------------------------------------
InMemory ==
    Elements(buffer) \cup UNION {Elements(batch[t]) : t \in Threads}

TypeOK ==
    /\ buffer \in Seq(Samples)
    /\ pc \in [Threads -> {"idle", "append", "flush", "put", "requeue"}]
    /\ batch \in [Threads -> Seq(Samples)]
    /\ \A t \in Threads : batch[t] # <<>> <=> pc[t] \in {"put", "requeue"}
    /\ stored \in [Samples -> Nat]
    /\ accepted \subseteq Samples
    /\ unknown \in 0..MaxFaults
    /\ stopping \in BOOLEAN
    /\ process \in 1..MaxProcesses
    /\ faults \in 0..MaxFaults

(* Every place that holds a record.                                        *)
Places(s) ==
    {<<"buffer", i>> : i \in {j \in DOMAIN buffer : buffer[j] = s}}
        \cup {<<"stored", i>> : i \in 1..stored[s]}
        \cup UNION {{<<t, i>> : i \in {j \in DOMAIN batch[t] : batch[t][j] = s}}
                       : t \in Threads}

(* However threads interleave and uploads fail, a record is held in one    *)
(* place only, but for one more per upload whose answer was lost: the only *)
(* source of duplicate training samples is the store itself.               *)
DuplicatesNeedLostAnswers ==
    \A s \in Samples : Cardinality(Places(s)) <= 1 + unknown

(* A full buffer is on its way to the store: a thread is about to take it, *)
(* unless an upload failed and the records wait for the next addition.     *)
FullBufferIsFlushed ==
    faults = 0 /\ Len(buffer) >= Threshold =>
        \E t \in Threads : pc[t] = "flush"

(* With the store answering again (the faults are bounded), what was taken *)
(* out of the buffer gets stored, comes back to the buffer, or dies with   *)
(* the process: no batch is held for ever.                                 *)
BatchesAreReleased ==
    \A t \in Threads : pc[t] = "flush" ~> pc[t] = "idle"

-----------------------------------------------------------------------------
(* What the buffer promises of each record, and only the end of the        *)
(* process may break.                                                      *)
Status(s) ==
    CASE stored[s] > 0 -> "delivered"
      [] stored[s] = 0 /\ s \in InMemory -> "pending"
      [] stored[s] = 0 /\ s \notin InMemory /\ s \in accepted -> "lost"
      [] OTHER -> "new"

Delivery == INSTANCE SampleDelivery
    WITH status <- [s \in Samples |-> Status(s)]

ImplementsDelivery == Delivery!Spec

=============================================================================
