--------------------------- MODULE AutoAccumulator ---------------------------
(***************************************************************************)
(* The accumulator of pseudo-labelled samples: BufferedUpload, with the    *)
(* image of each sample uploaded before its record is buffered.  The       *)
(* record carries the key of the image, and training later joins the two.  *)
(* The data-accumulation flow deletes accepted records, not their images.  *)
(***************************************************************************)
EXTENDS BufferedUpload

VARIABLES
    adding,      \* thread -> the sample it is adding, as a set, {} when none
    images,      \* the samples whose image is in the bucket
    refs,        \* the samples whose record has an image_ref
    deleted      \* record -> how many of its stored objects were deleted

imageVars == <<adding, images, refs, deleted>>
vars == <<uploadVars, imageVars>>

-----------------------------------------------------------------------------
Init ==
    /\ InitUpload
    /\ adding = [t \in Threads |-> {}]
    /\ images = {}
    /\ refs = {}
    /\ deleted = [s \in Samples |-> 0]

(* Mutant: the key is written to the sample whatever the upload did.       *)
UploadImageAnyway(t, s) ==
    /\ pc[t] = "idle"
    /\ ~stopping
    /\ s \notin accepted
    /\ \A u \in Threads : s \notin adding[u]
    /\ adding' = [adding EXCEPT ![t] = {s}]
    /\ \/ images' = images \cup {s} /\ UNCHANGED faults
       \/ images' = images /\ Fault("image")
       \/ images' = images \cup {s} /\ Fault("imageUnknown")
    /\ refs' = refs \cup {s}
    /\ Goto(t, "append")
    /\ UNCHANGED <<buffer, batch, stopping, stored, accepted, unknown, process,
                   deleted>>

(* add up to its lock, with _upload_image: a failed upload leaves the      *)
(* sample without a reference, whether or not the image arrived.           *)
UploadImage(t, s) ==
    /\ pc[t] = "idle"
    /\ ~stopping
    /\ s \notin accepted
    /\ \A u \in Threads : s \notin adding[u]
    /\ adding' = [adding EXCEPT ![t] = {s}]
    /\ \/ /\ images' = images \cup {s}
          /\ refs' = refs \cup {s}
          /\ UNCHANGED faults
       \/ Fault("image") /\ UNCHANGED <<images, refs>>
       \/ /\ Fault("imageUnknown")
          /\ images' = images \cup {s}
          /\ UNCHANGED refs
    /\ Goto(t, "append")
    /\ UNCHANGED <<buffer, batch, stopping, stored, accepted, unknown, process,
                   deleted>>

(* A sample that carries no image is added as the logger adds its record.  *)
AddWithoutImage(t, s) ==
    /\ \A u \in Threads : s \notin adding[u]
    /\ Log(t, s)
    /\ UNCHANGED imageVars

(* The rest of add.                                                        *)
AddSample(t) ==
    /\ pc[t] = "append"
    /\ \E s \in adding[t] : AppendRecord(t, s)
    /\ adding' = [adding EXCEPT ![t] = {}]
    /\ UNCHANGED <<images, refs, deleted>>

(* flush, in its three steps, leaves the images alone.                     *)
FlushSamples(t) == Flush(t) /\ UNCHANGED imageVars

(* The bucket survives the process.                                        *)
EndAccumulator ==
    /\ Exit \/ Crash
    /\ adding' = [t \in Threads |-> {}]
    /\ UNCHANGED <<images, refs, deleted>>

-----------------------------------------------------------------------------
InBucket(s) == deleted[s] < stored[s]

(* cleanup_accumulated, called on whatever the flow has listed and its     *)
(* gate accepted (DataAccumulation): the jsonl objects go, key by key, and *)
(* their images stay.  Records that share an object may part here, which   *)
(* adds behaviours and takes none away.                                    *)
Cleanup(s) ==
    /\ InBucket(s)
    /\ deleted' = [deleted EXCEPT ![s] = @ + 1]
    /\ UNCHANGED <<uploadVars, adding, images, refs>>

-----------------------------------------------------------------------------
AccumulatorNext ==
    \/ \E t \in Threads :
          \/ \E s \in Samples : UploadImage(t, s) \/ AddWithoutImage(t, s)
          \/ AddSample(t)
          \/ FlushSamples(t)
          \/ Shutdown(t) /\ UNCHANGED imageVars
    \/ EndAccumulator
    \/ \E s \in Samples : Cleanup(s)

AccumulatorSpec == Init /\ [][AccumulatorNext]_vars

(* A thread that flushes goes on: an upload returns or raises.             *)
FairAccumulatorSpec ==
    AccumulatorSpec /\ \A t \in Threads : WF_vars(FlushSamples(t))

-----------------------------------------------------------------------------
AccumulatorTypeOK ==
    /\ TypeOK
    /\ adding \in [Threads -> SUBSET Samples]
    /\ \A t \in Threads : Cardinality(adding[t]) = IF pc[t] = "append" THEN 1 ELSE 0
    /\ images \subseteq Samples
    /\ refs \subseteq Samples
    /\ deleted \in [Samples -> Nat]
    /\ \A s \in Samples : deleted[s] <= stored[s]

(* A stored record never names an image that is not in the bucket,         *)
(* whichever of the two uploads fail and wherever the process dies.        *)
ReferencesResolve ==
    \A s \in Samples : stored[s] > 0 /\ s \in refs => s \in images

(* An image without a record is the trace of a crash, of a failure or of   *)
(* cleanup_accumulated: with nothing failing, every image belongs to a     *)
(* record that is in the bucket, buffered or being added, or that was in   *)
(* the bucket until an accepted accumulation deleted it.                   *)
ImagesBelongToRecords ==
    faults = 0 /\ process = 1 =>
        \A s \in images :
            \/ InBucket(s)
            \/ s \in InMemory
            \/ \E t \in Threads : s \in adding[t]
            \/ deleted[s] > 0

=============================================================================
