----------------------- MODULE AutoAccumulator_proofs -----------------------
(***************************************************************************)
(* Theorems about AutoAccumulator, and the BufferedUpload in it, for any   *)
(* threads, samples, threshold, number of processes and number of faults.  *)
(***************************************************************************)
EXTENDS AutoAccumulator, FiniteSetTheorems, SequenceTheorems, TLAPS

-----------------------------------------------------------------------------
(* Sequences: what they hold, and how often.                               *)
Distinct(q) == \A i, j \in DOMAIN q : q[i] = q[j] => i = j

LEMMA ElementsEmpty == Elements(<<>>) = {} /\ Distinct(<<>>)
  BY DEF Elements, Distinct

LEMMA ElementsNotEmpty ==
    ASSUME NEW S, NEW q \in Seq(S), q # <<>>
    PROVE  Len(q) \in Nat \ {0} /\ Elements(q) \subseteq S
  BY EmptySeq, ElementOfSeq, LenProperties DEF Elements

LEMMA ElementsOfAppend ==
    ASSUME NEW S, NEW q \in Seq(S), NEW x \in S
    PROVE  /\ Append(q, x) \in Seq(S)
           /\ Len(Append(q, x)) = Len(q) + 1
           /\ Elements(Append(q, x)) = Elements(q) \cup {x}
           /\ Distinct(q) /\ x \notin Elements(q) => Distinct(Append(q, x))
  <1> DEFINE a == Append(q, x)
  <1>1. /\ a \in Seq(S) /\ Len(a) = Len(q) + 1 /\ Len(q) \in Nat
        /\ DOMAIN q = 1..Len(q) /\ DOMAIN a = 1..(Len(q) + 1)
        /\ \A i \in 1..Len(q) : a[i] = q[i]
        /\ a[Len(q) + 1] = x
    BY AppendProperties, LenProperties
  <1> HIDE DEF a
  <1>2. 1..(Len(q) + 1) = 1..Len(q) \cup {Len(q) + 1}
    BY <1>1
  <1>3. Elements(a) = Elements(q) \cup {x}
    BY <1>1, <1>2 DEF Elements
  <1>4. Distinct(q) /\ x \notin Elements(q) => Distinct(a)
    BY <1>1, <1>2 DEF Elements, Distinct
  <1>5. QED
    BY <1>1, <1>3, <1>4 DEF a

LEMMA ElementsOfConcat ==
    ASSUME NEW S, NEW p \in Seq(S), NEW q \in Seq(S)
    PROVE  /\ p \o q \in Seq(S)
           /\ Elements(p \o q) = Elements(p) \cup Elements(q)
           /\ Distinct(p) /\ Distinct(q) /\ Elements(p) \cap Elements(q) = {}
                => Distinct(p \o q)
  <1> DEFINE m == Len(p)
             n == Len(q)
             c == p \o q
  <1>1. /\ c \in Seq(S) /\ m \in Nat /\ n \in Nat
        /\ DOMAIN p = 1..m /\ DOMAIN q = 1..n /\ DOMAIN c = 1..(m + n)
        /\ \A i \in 1..(m + n) : c[i] = IF i <= m THEN p[i] ELSE q[i - m]
    BY ConcatProperties, LenProperties
  <1> HIDE DEF c, m, n
  <1>2. /\ \A i \in 1..m : i \in 1..(m + n) /\ c[i] = p[i]
        /\ \A i \in 1..n : (i + m) \in 1..(m + n) /\ c[i + m] = q[i]
        /\ \A i \in 1..(m + n) : i \in 1..m \/ (i - m) \in 1..n
    BY <1>1
  <1>3. Elements(c) = Elements(p) \cup Elements(q)
    <2>1. ASSUME NEW x \in Elements(c)
          PROVE  x \in Elements(p) \cup Elements(q)
      <3>1. PICK i \in 1..(m + n) : x = c[i]
        BY <1>1, <2>1 DEF Elements
      <3>2. CASE i <= m
        BY <1>1, <3>1, <3>2 DEF Elements
      <3>3. CASE i > m
        <4>1. (i - m) \in 1..n /\ x = q[i - m]
          BY <1>1, <3>1, <3>3
        <4>2. QED
          BY <1>1, <4>1 DEF Elements
      <3>4. QED
        BY <1>1, <3>2, <3>3
    <2>2. Elements(p) \subseteq Elements(c)
      BY <1>1, <1>2 DEF Elements
    <2>3. ASSUME NEW x \in Elements(q)
          PROVE  x \in Elements(c)
      <3>1. PICK i \in 1..n : x = q[i]
        BY <1>1, <2>3 DEF Elements
      <3>2. QED
        BY <1>1, <1>2, <3>1 DEF Elements
    <2>4. QED
      BY <2>1, <2>2, <2>3
  <1>4. ASSUME Distinct(p), Distinct(q), Elements(p) \cap Elements(q) = {}
        PROVE  Distinct(c)
    <2> SUFFICES ASSUME NEW i \in 1..(m + n), NEW j \in 1..(m + n), c[i] = c[j]
                 PROVE  i = j
      BY <1>1 DEF Distinct
    <2>1. \A k \in 1..m : p[k] \in Elements(p)
      BY <1>1 DEF Elements
    <2>2. \A k \in 1..n : q[k] \in Elements(q)
      BY <1>1 DEF Elements
    <2>3. CASE i <= m /\ j <= m
      <3>1. i \in 1..m /\ j \in 1..m /\ p[i] = p[j]
        BY <1>1, <2>3
      <3>2. QED
        BY <1>1, <1>4, <3>1 DEF Distinct
    <2>4. CASE i > m /\ j > m
      <3>1. (i - m) \in 1..n /\ (j - m) \in 1..n /\ q[i - m] = q[j - m]
        BY <1>1, <2>4
      <3>2. i - m = j - m
        BY <1>1, <1>4, <3>1 DEF Distinct
      <3>3. QED
        BY <1>1, <3>2
    <2>5. CASE i <= m /\ j > m
      <3>1. i \in 1..m /\ (j - m) \in 1..n /\ p[i] = q[j - m]
        BY <1>1, <2>5
      <3>2. QED
        BY <1>4, <2>1, <2>2, <3>1
    <2>6. CASE i > m /\ j <= m
      <3>1. j \in 1..m /\ (i - m) \in 1..n /\ p[j] = q[i - m]
        BY <1>1, <2>6
      <3>2. QED
        BY <1>4, <2>1, <2>2, <3>1
    <2>7. QED
      BY <1>1, <2>3, <2>4, <2>5, <2>6
  <1>5. QED
    BY <1>1, <1>3, <1>4 DEF c

(* A sequence without repetition holds each of its elements once.          *)
LEMMA OccurrencesCount ==
    ASSUME NEW S, NEW q \in Seq(S), NEW x
    PROVE  /\ Occurrences(q, x) \in Nat
           /\ Occurrences(q, x) > 0 <=> x \in Elements(q)
           /\ Distinct(q) => Occurrences(q, x) <= 1
  <1> DEFINE I == {i \in DOMAIN q : q[i] = x}
  <1>1. Len(q) \in Nat /\ DOMAIN q = 1..Len(q)
    BY LenProperties
  <1>2. IsFiniteSet(I) /\ Cardinality(I) \in Nat
    <2>1. IsFiniteSet(1..Len(q))
      BY <1>1, FS_Interval
    <2>2. I \in SUBSET (1..Len(q))
      BY <1>1
    <2>3. QED
      BY <2>1, <2>2, FS_Subset, FS_CardinalityType
  <1>3. Cardinality(I) = 0 <=> I = {}
    BY <1>2, FS_EmptySet
  <1>4. I = {} <=> x \notin Elements(q)
    BY DEF Elements
  <1>5. ASSUME Distinct(q), I # {}
        PROVE  Cardinality(I) = 1
    <2>1. PICK i \in I : TRUE
      BY <1>5
    <2>2. I = {i}
      BY <1>5, <2>1 DEF Distinct
    <2>3. QED
      BY <2>2, FS_Singleton
  <1>6. Distinct(q) => Cardinality(I) <= 1
    BY <1>3, <1>5
  <1>7. Cardinality(I) > 0 <=> x \in Elements(q)
    BY <1>2, <1>3, <1>4
  <1>8. QED
    BY <1>2, <1>6, <1>7 DEF Occurrences

USE BufferAssumption

-----------------------------------------------------------------------------
(* A thread has a sample in its hands while it adds it, and only then; and *)
(* each upload whose answer was lost is one of the faults.                 *)
TypeInv ==
    /\ TypeOK
    /\ unknown <= faults
    /\ adding \in [Threads -> SUBSET Samples]
    /\ \A t \in Threads : pc[t] = "append" => \E s \in Samples : adding[t] = {s}
    /\ \A t \in Threads : pc[t] # "append" => adding[t] = {}
    /\ images \subseteq Samples
    /\ refs \subseteq Samples
    /\ deleted \in [Samples -> Nat]
    /\ \A s \in Samples : deleted[s] <= stored[s]

LEMMA FaultCounts ==
    ASSUME TypeOK
    PROVE  \A call : Fault(call) =>
              /\ faults' = faults + 1
              /\ faults' \in 0..MaxFaults
              /\ faults' # 0
              /\ faults' > 0
  BY DEF TypeOK, Fault

LEMMA StoreCounts ==
    ASSUME TypeOK, NEW t \in Threads, Store(t)
    PROVE  /\ stored' \in [Samples -> Nat]
           /\ \A s \in Samples :
                /\ stored[s] \in Nat
                /\ stored'[s] = stored[s] + Occurrences(batch[t], s)
                /\ Occurrences(batch[t], s) \in Nat
                /\ Occurrences(batch[t], s) > 0 <=> s \in Elements(batch[t])
                /\ stored'[s] > 0 <=> (stored[s] > 0 \/ s \in Elements(batch[t]))
                /\ Distinct(batch[t]) => Occurrences(batch[t], s) <= 1
  <1>1. batch[t] \in Seq(Samples) /\ stored \in [Samples -> Nat]
    BY DEF TypeOK
  <1>2. ASSUME NEW s \in Samples
        PROVE  /\ Occurrences(batch[t], s) \in Nat
               /\ Occurrences(batch[t], s) > 0 <=> s \in Elements(batch[t])
               /\ Distinct(batch[t]) => Occurrences(batch[t], s) <= 1
    BY <1>1, OccurrencesCount
  <1>3. stored' = [s \in Samples |-> stored[s] + Occurrences(batch[t], s)]
    BY DEF Store
  <1>4. QED
    BY <1>1, <1>2, <1>3

(* What the counters and the images become, action by action.              *)
LEMMA AppendType ==
    ASSUME TypeInv, NEW t \in Threads, NEW s \in Samples, AppendRecord(t, s),
           pc[t] \in {"idle", "append"}
    PROVE  TypeOK' /\ unknown' <= faults'
  <1>1. Append(buffer, s) \in Seq(Samples)
    BY ElementsOfAppend DEF TypeInv, TypeOK
  <1>2. PICK l \in {"flush", "idle"} : Goto(t, l)
    BY DEF AppendRecord
  <1>3. QED
    BY <1>1, <1>2 DEF AppendRecord, TypeInv, TypeOK, Goto

LEMMA TakeType ==
    ASSUME TypeInv, NEW t \in Threads, TakeBatch(t)
    PROVE  TypeOK' /\ unknown' <= faults'
  <1>1. <<>> \in Seq(Samples)
    BY EmptySeq
  <1>2. CASE buffer = <<>>
    BY <1>2 DEF TakeBatch, TypeInv, TypeOK, Goto
  <1>3. CASE buffer # <<>>
    BY <1>1, <1>3 DEF TakeBatch, TypeInv, TypeOK, Goto
  <1>4. QED
    BY <1>2, <1>3

LEMMA PutType ==
    ASSUME TypeInv, NEW t \in Threads, PutBatch(t)
    PROVE  TypeOK' /\ unknown' <= faults'
  <1> USE FaultCounts DEF TypeInv
  <1>1. <<>> \in Seq(Samples)
    BY EmptySeq
  <1>2. CASE /\ Store(t)
             /\ batch' = [batch EXCEPT ![t] = <<>>]
             /\ Goto(t, "idle")
             /\ UNCHANGED <<unknown, faults>>
    <2>1. pc[t] = "put" /\ UNCHANGED <<buffer, stopping, accepted, process>>
      BY DEF PutBatch
    <2>2. stored' \in [Samples -> Nat]
      BY <1>2, StoreCounts
    <2>3. QED
      BY <1>1, <1>2, <2>1, <2>2 DEF TypeOK, Goto
  <1>3. CASE Fault("put") /\ UNCHANGED <<stored, unknown, batch>> /\ Goto(t, "requeue")
    BY <1>3 DEF PutBatch, TypeOK, Goto
  <1>4. CASE Fault("unknown") /\ Store(t) /\ unknown' = unknown + 1
    <2>1. unknown' \in 0..MaxFaults /\ faults' \in 0..MaxFaults /\ unknown' <= faults'
      BY <1>4 DEF TypeOK
    <2>2. Goto(t, "requeue") /\ UNCHANGED <<buffer, batch, stopping, accepted, process>>
      BY <1>4 DEF PutBatch, Fault, TypeOK
    <2>3. pc[t] = "put" /\ stored' \in [Samples -> Nat]
      BY <1>4, StoreCounts DEF PutBatch
    <2>4. QED
      BY <2>1, <2>2, <2>3 DEF TypeOK, Goto
  <1>5. QED
    BY <1>2, <1>3, <1>4 DEF PutBatch

LEMMA RequeueType ==
    ASSUME TypeInv, NEW t \in Threads, Requeue(t)
    PROVE  TypeOK' /\ unknown' <= faults'
  <1>1. <<>> \in Seq(Samples)
    BY EmptySeq
  <1>2. batch[t] \o buffer \in Seq(Samples)
    BY ElementsOfConcat DEF TypeInv, TypeOK
  <1>3. QED
    BY <1>1, <1>2 DEF Requeue, TypeInv, TypeOK, Goto

LEMMA EndType ==
    ASSUME TypeInv, EndProcess, UNCHANGED faults \/ Fault("crash")
    PROVE  TypeOK' /\ unknown' <= faults'
  <1>1. <<>> \in Seq(Samples)
    BY EmptySeq
  <1>2. faults' \in 0..MaxFaults /\ faults' >= faults
    BY FaultCounts DEF TypeInv, TypeOK
  <1>3. /\ buffer' \in Seq(Samples)
        /\ pc' \in [Threads -> {"idle", "append", "flush", "put", "requeue"}]
        /\ batch' \in [Threads -> Seq(Samples)]
        /\ \A t \in Threads : batch'[t] = <<>> /\ pc'[t] = "idle"
    BY <1>1 DEF EndProcess
  <1>4. process' \in 1..MaxProcesses /\ unknown' \in 0..MaxFaults /\ unknown' <= faults'
    BY <1>2 DEF EndProcess, TypeInv, TypeOK
  <1>5. QED
    BY <1>2, <1>3, <1>4 DEF EndProcess, TypeInv, TypeOK

(* Objects are only added by uploads, so what cleanup deletes is there.    *)
DeletedType ==
    deleted \in [Samples -> Nat] /\ \A s \in Samples : deleted[s] <= stored[s]

LEMMA DeletedKept ==
    ASSUME TypeInv, [AccumulatorNext]_vars
    PROVE  DeletedType'
  <1>0. /\ deleted \in [Samples -> Nat] /\ stored \in [Samples -> Nat]
        /\ \A s \in Samples : deleted[s] <= stored[s]
    BY DEF TypeInv, TypeOK
  <1>1. ASSUME NEW s \in Samples, Cleanup(s)
        PROVE  DeletedType'
    BY <1>0, <1>1 DEF Cleanup, InBucket, uploadVars, DeletedType
  <1>2. ASSUME NEW t \in Threads, PutBatch(t), UNCHANGED deleted
        PROVE  DeletedType'
    <2>1. CASE UNCHANGED stored
      BY <1>0, <1>2, <2>1 DEF DeletedType
    <2>2. CASE Store(t)
      <3>1. \A s \in Samples :
               /\ stored'[s] = stored[s] + Occurrences(batch[t], s)
               /\ Occurrences(batch[t], s) \in Nat
        BY <2>2, StoreCounts DEF TypeInv
      <3>2. QED
        BY <1>0, <1>2, <3>1 DEF DeletedType
    <2>3. QED
      BY <1>2, <2>1, <2>2 DEF PutBatch
  <1>3. CASE UNCHANGED <<stored, deleted>>
    BY <1>0, <1>3 DEF DeletedType
  <1>4. QED
    BY <1>1, <1>2, <1>3
       DEF AccumulatorNext, UploadImage, AddWithoutImage, Log, AddSample,
           AppendRecord, FlushSamples, Flush, TakeBatch, Requeue, Shutdown,
           EndAccumulator, Exit, Crash, EndProcess, imageVars, vars,
           uploadVars, memoryVars

LEMMA TypeInvStep ==
    ASSUME TypeInv, [AccumulatorNext]_vars
    PROVE  TypeInv'
  <1>0. /\ deleted' \in [Samples -> Nat]
        /\ \A s \in Samples : deleted'[s] <= stored'[s]
    BY DeletedKept DEF DeletedType
  <1>1. ASSUME NEW t \in Threads, NEW s \in Samples, UploadImage(t, s)
        PROVE  TypeInv'
    <2>1. faults' \in 0..MaxFaults /\ faults' >= faults
      BY <1>1, FaultCounts DEF UploadImage, TypeInv, TypeOK
    <2>2. TypeOK' /\ unknown' <= faults'
      BY <1>1, <2>1 DEF UploadImage, TypeInv, TypeOK, Goto
    <2>3. images' \subseteq Samples /\ refs' \subseteq Samples
      BY <1>1 DEF UploadImage, TypeInv
    <2>4. QED
      BY <1>0, <1>1, <2>2, <2>3 DEF UploadImage, TypeInv, TypeOK, Goto
  <1>2. ASSUME NEW t \in Threads, NEW s \in Samples, AddWithoutImage(t, s)
        PROVE  TypeInv'
    <2>1. TypeOK' /\ unknown' <= faults'
      BY <1>2, AppendType DEF AddWithoutImage, Log
    <2>2. PICK l \in {"flush", "idle"} : Goto(t, l)
      BY <1>2 DEF AddWithoutImage, Log, AppendRecord
    <2>3. QED
      BY <1>0, <1>2, <2>1, <2>2 DEF AddWithoutImage, Log, imageVars, TypeInv, TypeOK, Goto
  <1>3. ASSUME NEW t \in Threads, AddSample(t)
        PROVE  TypeInv'
    <2>1. PICK s \in Samples : adding[t] = {s} /\ AppendRecord(t, s)
      BY <1>3 DEF AddSample, TypeInv
    <2>2. TypeOK' /\ unknown' <= faults'
      BY <1>3, <2>1, AppendType DEF AddSample
    <2>3. PICK l \in {"flush", "idle"} : Goto(t, l)
      BY <2>1 DEF AppendRecord
    <2>4. QED
      BY <1>0, <1>3, <2>2, <2>3 DEF AddSample, TypeInv, TypeOK, Goto
  <1>4. ASSUME NEW t \in Threads, FlushSamples(t)
        PROVE  TypeInv'
    <2>1. TypeOK' /\ unknown' <= faults'
      BY <1>4, TakeType, PutType, RequeueType DEF FlushSamples, Flush
    <2>2. pc[t] # "append" /\ \E l \in {"idle", "put", "requeue"} : Goto(t, l)
      BY <1>4 DEF FlushSamples, Flush, TakeBatch, PutBatch, Requeue
    <2>3. QED
      BY <1>0, <1>4, <2>1, <2>2 DEF FlushSamples, imageVars, TypeInv, TypeOK, Goto
  <1>5. ASSUME NEW t \in Threads, Shutdown(t), UNCHANGED imageVars
        PROVE  TypeInv'
    BY <1>0, <1>5 DEF Shutdown, AllIdle, imageVars, TypeInv, TypeOK, Goto
  <1>6. CASE EndAccumulator
    <2>1. EndProcess /\ (UNCHANGED faults \/ Fault("crash"))
      BY <1>6 DEF EndAccumulator, Exit, Crash
    <2>2. TypeOK' /\ unknown' <= faults'
      BY <2>1, EndType
    <2>3. QED
      BY <1>0, <1>6, <2>1, <2>2 DEF EndAccumulator, EndProcess, TypeInv
  <1>7. CASE UNCHANGED vars
    BY <1>7 DEF vars, uploadVars, memoryVars, imageVars, TypeInv, TypeOK
  <1>8. ASSUME NEW s \in Samples, Cleanup(s)
        PROVE  TypeInv'
    BY <1>0, <1>8 DEF Cleanup, uploadVars, memoryVars, TypeInv, TypeOK
  <1>9. QED
    BY <1>1, <1>2, <1>3, <1>4, <1>5, <1>6, <1>7, <1>8 DEF AccumulatorNext

LEMMA TypeInvInit == Init => TypeInv
  <1>1. <<>> \in Seq(Samples)
    BY EmptySeq
  <1>2. Init => /\ buffer \in Seq(Samples)
                /\ pc \in [Threads -> {"idle", "append", "flush", "put", "requeue"}]
                /\ batch \in [Threads -> Seq(Samples)]
                /\ \A t \in Threads : batch[t] = <<>> /\ pc[t] = "idle"
    BY <1>1 DEF Init, InitUpload, InitMemory
  <1>3. Init => /\ stored \in [Samples -> Nat]
                /\ process \in 1..MaxProcesses
                /\ faults \in 0..MaxFaults
                /\ unknown \in 0..MaxFaults
                /\ unknown <= faults
                /\ deleted \in [Samples -> Nat]
                /\ \A s \in Samples : deleted[s] <= stored[s]
    BY DEF Init, InitUpload
  <1>4. QED
    BY <1>2, <1>3 DEF Init, InitUpload, InitMemory, TypeInv, TypeOK

LEMMA TypeInvariant == AccumulatorSpec => []TypeInv
  BY TypeInvInit, TypeInvStep, PTL DEF AccumulatorSpec

(* Every variable keeps its type, and a thread holds the one sample it is  *)
(* adding exactly while it is between the two halves of add.               *)
THEOREM TypeCorrect == AccumulatorSpec => []AccumulatorTypeOK
  <1>1. TypeInv => AccumulatorTypeOK
    <2> SUFFICES ASSUME TypeInv, NEW t \in Threads
                 PROVE  Cardinality(adding[t]) = IF pc[t] = "append" THEN 1 ELSE 0
      BY DEF TypeInv, AccumulatorTypeOK
    <2>1. CASE pc[t] = "append"
      <3>1. PICK s \in Samples : adding[t] = {s}
        BY <2>1 DEF TypeInv
      <3>2. QED
        BY <2>1, <3>1, FS_Singleton
    <2>2. CASE pc[t] # "append"
      BY <2>2, FS_EmptySet DEF TypeInv
    <2>3. QED
      BY <2>1, <2>2
  <1>2. QED
    BY <1>1, TypeInvariant, PTL

-----------------------------------------------------------------------------
(* The key is written to the record only where the image was uploaded.     *)
ReferenceInv == refs \subseteq images

(* A stored record never names an image that is not in the bucket,         *)
(* whichever of the two uploads fail and wherever the process dies.        *)
THEOREM StoredReferencesResolve == AccumulatorSpec => []ReferencesResolve
  <1>1. Init => ReferenceInv
    BY DEF Init, ReferenceInv
  <1>2. ASSUME ReferenceInv, [AccumulatorNext]_vars
        PROVE  ReferenceInv'
    BY <1>2 DEF ReferenceInv, AccumulatorNext, UploadImage, AddWithoutImage, AddSample,
                FlushSamples, EndAccumulator, Cleanup, imageVars, vars
  <1>3. ReferenceInv => ReferencesResolve
    BY DEF ReferenceInv, ReferencesResolve
  <1>4. QED
    BY <1>1, <1>2, <1>3, PTL DEF AccumulatorSpec

-----------------------------------------------------------------------------
(* Where the records are, step by step.                                    *)
Held(t) == Elements(batch[t])

LEMMA MemoryIs ==
    /\ \A s : s \in InMemory <=> (s \in Elements(buffer) \/ \E t \in Threads : s \in Held(t))
    /\ \A s : s \in InMemory' <=> (s \in Elements(buffer)' \/ \E t \in Threads : s \in Held(t)')
  BY DEF InMemory, Held

LEMMA AppendMoves ==
    ASSUME TypeInv, NEW t \in Threads, NEW s \in Samples, AppendRecord(t, s)
    PROVE  /\ Elements(buffer') = Elements(buffer) \cup {s}
           /\ Distinct(buffer) /\ s \notin Elements(buffer) => Distinct(buffer')
           /\ accepted' = accepted \cup {s}
           /\ InMemory' = InMemory \cup {s}
           /\ UNCHANGED <<batch, stored, unknown, process, faults>>
  <1>1. /\ Elements(buffer') = Elements(buffer) \cup {s}
        /\ Distinct(buffer) /\ s \notin Elements(buffer) => Distinct(buffer')
        /\ UNCHANGED <<batch, stored, unknown, process, faults>>
        /\ accepted' = accepted \cup {s}
    BY ElementsOfAppend DEF AppendRecord, TypeInv, TypeOK
  <1>2. InMemory' = InMemory \cup {s}
    BY <1>1, MemoryIs DEF Held
  <1>3. QED
    BY <1>1, <1>2

LEMMA TakeMoves ==
    ASSUME TypeInv, NEW t \in Threads, TakeBatch(t)
    PROVE  /\ \/ UNCHANGED <<buffer, batch>>
              \/ /\ Elements(buffer') = {} /\ Distinct(buffer')
                 /\ batch' = [batch EXCEPT ![t] = buffer]
                 /\ Held(t) = {}
           /\ InMemory' = InMemory
           /\ UNCHANGED <<stored, accepted, unknown, process, faults>>
  <1>1. Held(t) = {}
    BY ElementsEmpty DEF TakeBatch, Held, TypeInv, TypeOK
  <1>2. CASE UNCHANGED <<buffer, batch>>
    BY <1>2, MemoryIs DEF TakeBatch, Held
  <1>3. CASE buffer' = <<>> /\ batch' = [batch EXCEPT ![t] = buffer]
    <2>1. batch \in [Threads -> Seq(Samples)]
      BY DEF TypeInv, TypeOK
    <2>2. Elements(buffer') = {} /\ Distinct(buffer')
      BY <1>3, ElementsEmpty
    <2>3. /\ Held(t)' = Elements(buffer)
          /\ \A u \in Threads : u # t => Held(u)' = Held(u)
      BY <1>3, <2>1 DEF Held
    <2>4. InMemory' = InMemory
      BY <1>1, <2>2, <2>3, MemoryIs
    <2>5. QED
      BY <1>1, <1>3, <2>2, <2>4 DEF TakeBatch
  <1>4. QED
    BY <1>2, <1>3 DEF TakeBatch

(* An upload that was done is in the bucket and out of memory; one that    *)
(* was refused has changed nothing; one whose answer is lost is in both.   *)
LEMMA PutMoves ==
    ASSUME TypeInv, NEW t \in Threads, PutBatch(t)
    PROVE  /\ \/ /\ Store(t)
                 /\ batch' = [batch EXCEPT ![t] = <<>>]
                 /\ UNCHANGED <<unknown, faults>>
              \/ /\ UNCHANGED <<batch, stored, unknown>>
                 /\ faults' > 0
              \/ /\ Store(t)
                 /\ unknown' = unknown + 1
                 /\ UNCHANGED batch
                 /\ faults' > 0
           /\ InMemory \ Held(t) \subseteq InMemory'
           /\ InMemory' \subseteq InMemory
           /\ UNCHANGED <<buffer, accepted, process>>
  <1>1. UNCHANGED <<buffer, accepted, process>>
    BY DEF PutBatch
  <1>2. CASE /\ Store(t)
             /\ batch' = [batch EXCEPT ![t] = <<>>]
             /\ UNCHANGED <<unknown, faults>>
    <2>1. batch \in [Threads -> Seq(Samples)]
      BY DEF TypeInv, TypeOK
    <2>2. /\ Held(t)' = {}
          /\ \A u \in Threads : u # t => Held(u)' = Held(u)
      BY <1>2, <2>1, ElementsEmpty DEF Held
    <2>3. QED
      BY <1>1, <1>2, <2>2, MemoryIs
  <1>3. CASE UNCHANGED batch
    <2>1. InMemory' = InMemory
      BY <1>1, <1>3, MemoryIs DEF Held
    <2>2. \/ UNCHANGED <<batch, stored, unknown>> /\ faults' > 0
          \/ Store(t) /\ unknown' = unknown + 1 /\ UNCHANGED batch /\ faults' > 0
          \/ /\ Store(t)
             /\ batch' = [batch EXCEPT ![t] = <<>>]
             /\ UNCHANGED <<unknown, faults>>
      BY FaultCounts DEF PutBatch, TypeInv
    <2>3. QED
      BY <1>1, <2>1, <2>2
  <1>4. QED
    BY <1>2, <1>3 DEF PutBatch

LEMMA RequeueMoves ==
    ASSUME TypeInv, NEW t \in Threads, Requeue(t)
    PROVE  /\ Elements(buffer') = Elements(buffer) \cup Held(t)
           /\ Distinct(buffer) /\ Distinct(batch[t]) /\ Elements(buffer) \cap Held(t) = {}
                => Distinct(buffer')
           /\ batch' = [batch EXCEPT ![t] = <<>>]
           /\ InMemory' = InMemory
           /\ UNCHANGED <<stored, accepted, unknown, process, faults>>
  <1>1. batch \in [Threads -> Seq(Samples)] /\ buffer \in Seq(Samples)
    BY DEF TypeInv, TypeOK
  <1>2. /\ Elements(buffer') = Elements(buffer) \cup Held(t)
        /\ Distinct(buffer) /\ Distinct(batch[t]) /\ Elements(buffer) \cap Held(t) = {}
             => Distinct(buffer')
        /\ batch' = [batch EXCEPT ![t] = <<>>]
        /\ UNCHANGED <<stored, accepted, unknown, process, faults>>
    BY <1>1, ElementsOfConcat DEF Requeue, Held
  <1>3. /\ Held(t)' = {}
        /\ \A u \in Threads : u # t => Held(u)' = Held(u)
    BY <1>1, <1>2, ElementsEmpty DEF Held
  <1>4. ASSUME NEW x
        PROVE  x \in InMemory' <=> x \in InMemory
    <2>1. x \in Elements(buffer)' <=> (x \in Elements(buffer) \/ x \in Held(t))
      BY <1>2
    <2>2. x \in InMemory' <=>
             (x \in Elements(buffer)' \/ \E u \in Threads : u # t /\ x \in Held(u))
      BY <1>3, MemoryIs
    <2>3. QED
      BY <2>1, <2>2, MemoryIs
  <1>5. QED
    BY <1>2, <1>4

LEMMA EndMoves ==
    ASSUME TypeInv, EndProcess
    PROVE  /\ buffer' = <<>>
           /\ batch' = [t \in Threads |-> <<>>]
           /\ InMemory' = {}
           /\ process' = process + 1
           /\ UNCHANGED <<stored, accepted, unknown>>
  <1>1. /\ buffer' = <<>>
        /\ batch' = [t \in Threads |-> <<>>]
        /\ process' = process + 1
        /\ UNCHANGED <<stored, accepted, unknown>>
    BY DEF EndProcess
  <1>2. Elements(buffer') = {} /\ \A t \in Threads : Held(t)' = {}
    BY <1>1, ElementsEmpty DEF Held
  <1>3. QED
    BY <1>1, <1>2, MemoryIs

(* A step that does not touch the buffer.                                  *)
LEMMA MemoryKept ==
    ASSUME UNCHANGED <<buffer, batch>>
    PROVE  InMemory' = InMemory /\ \A t \in Threads : Held(t)' = Held(t)
  BY MemoryIs DEF Held

-----------------------------------------------------------------------------
(* A record is held in one place of the memory at most, and a record that  *)
(* is being added is nowhere yet.                                          *)
HeldOnceInv ==
    /\ Elements(buffer) \subseteq accepted
    /\ \A t \in Threads : Held(t) \subseteq accepted
    /\ \A s \in Samples : stored[s] > 0 => s \in accepted
    /\ Distinct(buffer)
    /\ \A t \in Threads : Distinct(batch[t]) /\ Elements(buffer) \cap Held(t) = {}
    /\ \A t, u \in Threads : t # u => Held(t) \cap Held(u) = {}
    /\ \A t \in Threads : adding[t] \cap accepted = {}
    /\ \A t, u \in Threads : t # u => adding[t] \cap adding[u] = {}

LEMMA HeldOnceInit == Init => HeldOnceInv
  <1>1. Init => /\ Elements(buffer) = {} /\ Distinct(buffer)
                /\ \A t \in Threads : Held(t) = {} /\ Distinct(batch[t])
    BY ElementsEmpty DEF Init, InitUpload, InitMemory, Held
  <1>2. Init => /\ \A s \in Samples : stored[s] = 0
                /\ \A t \in Threads : adding[t] = {}
    BY DEF Init, InitUpload
  <1>3. QED
    BY <1>1, <1>2 DEF HeldOnceInv

LEMMA HeldOnceAppend ==
    ASSUME TypeInv, HeldOnceInv, NEW t \in Threads, NEW s \in Samples,
           AppendRecord(t, s), s \notin accepted,
           \A u \in Threads : s \notin adding'[u] /\ adding'[u] \subseteq adding[u]
    PROVE  HeldOnceInv'
  <1>1. /\ Elements(buffer)' = Elements(buffer) \cup {s}
        /\ Distinct(buffer)'
        /\ accepted' = accepted \cup {s}
        /\ \A u \in Threads : Held(u)' = Held(u) /\ batch'[u] = batch[u]
        /\ stored' = stored
    BY AppendMoves DEF HeldOnceInv, Held
  <1>2. \A u \in Threads : s \notin Held(u)
    BY DEF HeldOnceInv
  <1>3. QED
    BY <1>1, <1>2 DEF HeldOnceInv

LEMMA HeldOnceTake ==
    ASSUME TypeInv, HeldOnceInv, NEW t \in Threads, TakeBatch(t), UNCHANGED adding
    PROVE  HeldOnceInv'
  <1>1. stored' = stored /\ accepted' = accepted
    BY TakeMoves
  <1>2. CASE UNCHANGED <<buffer, batch>>
    BY <1>1, <1>2 DEF HeldOnceInv, Held
  <1>3. CASE /\ Elements(buffer') = {} /\ Distinct(buffer')
             /\ batch' = [batch EXCEPT ![t] = buffer]
             /\ Held(t) = {}
    <2>1. batch \in [Threads -> Seq(Samples)]
      BY DEF TypeInv, TypeOK
    <2>2. /\ Held(t)' = Elements(buffer) /\ batch'[t] = buffer
          /\ \A u \in Threads : u # t => Held(u)' = Held(u) /\ batch'[u] = batch[u]
      BY <1>3, <2>1 DEF Held
    <2>3. QED
      BY <1>1, <1>3, <2>2 DEF HeldOnceInv
  <1>4. QED
    BY <1>2, <1>3, TakeMoves

LEMMA HeldOncePut ==
    ASSUME TypeInv, HeldOnceInv, NEW t \in Threads, PutBatch(t), UNCHANGED adding
    PROVE  HeldOnceInv'
  <1>1. buffer' = buffer /\ accepted' = accepted
    BY PutMoves
  <1>2. \A u \in Threads : \/ Held(u)' = Held(u) /\ batch'[u] = batch[u]
                           \/ Held(u)' = {} /\ Distinct(batch'[u])
    <2>1. batch \in [Threads -> Seq(Samples)]
      BY DEF TypeInv, TypeOK
    <2>2. batch' = batch \/ batch' = [batch EXCEPT ![t] = <<>>]
      BY PutMoves
    <2>3. QED
      BY <2>1, <2>2, ElementsEmpty DEF Held
  <1>3. \A s \in Samples : stored'[s] > 0 => s \in accepted
    <2>1. CASE stored' = stored
      BY <2>1 DEF HeldOnceInv
    <2>2. CASE Store(t)
      BY <2>2, StoreCounts DEF HeldOnceInv, Held, TypeInv
    <2>3. QED
      BY <2>1, <2>2, PutMoves
  <1>4. QED
    BY <1>1, <1>2, <1>3 DEF HeldOnceInv

LEMMA HeldOnceRequeue ==
    ASSUME TypeInv, HeldOnceInv, NEW t \in Threads, Requeue(t), UNCHANGED adding
    PROVE  HeldOnceInv'
  <1>1. /\ Elements(buffer)' = Elements(buffer) \cup Held(t)
        /\ Distinct(buffer)'
        /\ stored' = stored /\ accepted' = accepted
    BY RequeueMoves DEF HeldOnceInv
  <1>2. /\ Held(t)' = {} /\ Distinct(batch'[t])
        /\ \A u \in Threads : u # t => Held(u)' = Held(u) /\ batch'[u] = batch[u]
    <2>1. batch \in [Threads -> Seq(Samples)] /\ batch' = [batch EXCEPT ![t] = <<>>]
      BY RequeueMoves DEF TypeInv, TypeOK
    <2>2. QED
      BY <2>1, ElementsEmpty DEF Held
  <1>3. QED
    BY <1>1, <1>2 DEF HeldOnceInv

LEMMA HeldOnceStep ==
    ASSUME TypeInv, HeldOnceInv, [AccumulatorNext]_vars
    PROVE  HeldOnceInv'
  <1> USE DEF TypeInv
  <1>1. ASSUME NEW t \in Threads, NEW s \in Samples, UploadImage(t, s)
        PROVE  HeldOnceInv'
    <2>1. /\ UNCHANGED <<buffer, batch, stored, accepted>>
          /\ \A u \in Threads : adding'[u] = IF u = t THEN {s} ELSE adding[u]
          /\ s \notin accepted /\ \A u \in Threads : s \notin adding[u]
      BY <1>1 DEF UploadImage
    <2>2. QED
      BY <2>1 DEF HeldOnceInv, Held
  <1>2. ASSUME NEW t \in Threads, NEW s \in Samples, AddWithoutImage(t, s)
        PROVE  HeldOnceInv'
    BY <1>2, HeldOnceAppend DEF AddWithoutImage, Log, imageVars
  <1>3. ASSUME NEW t \in Threads, AddSample(t)
        PROVE  HeldOnceInv'
    <2>1. PICK s \in Samples : adding[t] = {s} /\ AppendRecord(t, s)
      BY <1>3 DEF AddSample
    <2>2. s \notin accepted /\ \A u \in Threads : u # t => s \notin adding[u]
      BY <2>1 DEF HeldOnceInv
    <2>3. \A u \in Threads : adding'[u] = IF u = t THEN {} ELSE adding[u]
      BY <1>3 DEF AddSample
    <2>4. QED
      BY <2>1, <2>2, <2>3, HeldOnceAppend
  <1>4. ASSUME NEW t \in Threads, FlushSamples(t)
        PROVE  HeldOnceInv'
    BY <1>4, HeldOnceTake, HeldOncePut, HeldOnceRequeue DEF FlushSamples, Flush, imageVars
  <1>5. ASSUME NEW t \in Threads, Shutdown(t), UNCHANGED imageVars
        PROVE  HeldOnceInv'
    BY <1>5 DEF Shutdown, imageVars, HeldOnceInv, Held
  <1>6. CASE EndAccumulator
    <2>1. EndProcess /\ \A t \in Threads : adding'[t] = {}
      BY <1>6 DEF EndAccumulator, Exit, Crash
    <2>2. /\ Elements(buffer') = {} /\ Distinct(buffer')
          /\ \A t \in Threads : Held(t)' = {} /\ Distinct(batch'[t])
      BY <2>1, EndMoves, ElementsEmpty DEF Held
    <2>3. stored' = stored /\ accepted' = accepted
      BY <2>1, EndMoves
    <2>4. QED
      BY <2>1, <2>2, <2>3 DEF HeldOnceInv
  <1>7. CASE UNCHANGED vars
    BY <1>7 DEF vars, uploadVars, memoryVars, imageVars, HeldOnceInv, Held
  <1>8. ASSUME NEW r \in Samples, Cleanup(r)
        PROVE  HeldOnceInv'
    BY <1>8 DEF Cleanup, uploadVars, memoryVars, HeldOnceInv, Held
  <1>9. QED
    BY <1>1, <1>2, <1>3, <1>4, <1>5, <1>6, <1>7, <1>8 DEF AccumulatorNext

LEMMA HeldOnce == AccumulatorSpec => []HeldOnceInv
  BY TypeInvariant, HeldOnceInit, HeldOnceStep, PTL DEF AccumulatorSpec

-----------------------------------------------------------------------------
(* An image without a record is the trace of a crash, of a failure or of   *)
(* cleanup_accumulated: with none of them, its record is stored, buffered  *)
(* or being added.  A record that is gone from the bucket was deleted.     *)
ImagesOwned ==
    faults = 0 /\ process = 1 =>
        \A s \in images : \/ stored[s] > 0
                          \/ s \in InMemory
                          \/ \E t \in Threads : s \in adding[t]

LEMMA ImagesStep ==
    ASSUME TypeInv, ImagesOwned, [AccumulatorNext]_vars
    PROVE  ImagesOwned'
  <1> USE DEF TypeInv
  <1> DEFINE Owned(s) == \/ stored[s] > 0
                         \/ s \in InMemory
                         \/ \E u \in Threads : s \in adding[u]
  <1> SUFFICES ASSUME faults' = 0, process' = 1, NEW s \in Samples, s \in images'
               PROVE  Owned(s)'
    BY TypeInvStep DEF ImagesOwned
  <1>0. faults \in Nat /\ process \in Nat \ {0}
    BY DEF TypeOK
  <1>1. ASSUME NEW t \in Threads, NEW r \in Samples, UploadImage(t, r)
        PROVE  Owned(s)'
    <2>1. /\ faults = 0 /\ process = 1
          /\ images' = images \cup {r}
          /\ adding' = [adding EXCEPT ![t] = {r}]
          /\ pc[t] = "idle"
          /\ UNCHANGED <<buffer, batch, stored>>
      BY <1>0, <1>1, FaultCounts DEF UploadImage
    <2>2. InMemory' = InMemory
      BY <2>1, MemoryKept
    <2>3. adding[t] = {} /\ adding'[t] = {r} /\ \A u \in Threads : u # t => adding'[u] = adding[u]
      BY <2>1
    <2>4. s \in images \/ s \in adding'[t]
      BY <2>1, <2>3
    <2>5. QED
      BY <2>1, <2>2, <2>3, <2>4 DEF ImagesOwned
  <1>2. ASSUME NEW t \in Threads, NEW r \in Samples, AddWithoutImage(t, r)
        PROVE  Owned(s)'
    <2>1. InMemory \subseteq InMemory' /\ UNCHANGED <<stored, process, faults, adding, images>>
      BY <1>2, AppendMoves DEF AddWithoutImage, Log, imageVars
    <2>2. QED
      BY <2>1 DEF ImagesOwned
  <1>3. ASSUME NEW t \in Threads, AddSample(t)
        PROVE  Owned(s)'
    <2>1. PICK r \in Samples : adding[t] = {r} /\ AppendRecord(t, r)
      BY <1>3 DEF AddSample
    <2>2. InMemory' = InMemory \cup {r} /\ UNCHANGED <<stored, process, faults, images>>
      BY <1>3, <2>1, AppendMoves DEF AddSample
    <2>3. \A u \in Threads : u # t => adding'[u] = adding[u]
      BY <1>3 DEF AddSample
    <2>4. QED
      BY <2>1, <2>2, <2>3 DEF ImagesOwned
  <1>4. ASSUME NEW t \in Threads, FlushSamples(t)
        PROVE  Owned(s)'
    <2>1. UNCHANGED <<adding, images>>
      BY <1>4 DEF FlushSamples, imageVars
    <2>2. CASE TakeBatch(t) \/ Requeue(t)
      BY <2>1, <2>2, TakeMoves, RequeueMoves DEF ImagesOwned
    <2>3. CASE PutBatch(t)
      <3>1. /\ Store(t)
            /\ UNCHANGED <<faults, process>>
            /\ InMemory \ Held(t) \subseteq InMemory'
        BY <2>3, PutMoves
      <3>2. stored'[s] > 0 <=> (stored[s] > 0 \/ s \in Held(t))
        BY <3>1, StoreCounts DEF Held
      <3>3. QED
        BY <2>1, <3>1, <3>2 DEF ImagesOwned
    <2>4. QED
      BY <1>4, <2>2, <2>3 DEF FlushSamples, Flush
  <1>5. ASSUME NEW t \in Threads, Shutdown(t), UNCHANGED imageVars
        PROVE  Owned(s)'
    BY <1>5, MemoryKept DEF Shutdown, imageVars, ImagesOwned
  <1>6. ~EndAccumulator
    BY <1>0 DEF EndAccumulator, Exit, Crash, EndProcess
  <1>7. CASE UNCHANGED vars
    BY <1>7, MemoryKept DEF vars, uploadVars, memoryVars, imageVars, ImagesOwned
  <1>8. ASSUME NEW r \in Samples, Cleanup(r)
        PROVE  Owned(s)'
    BY <1>8, MemoryKept DEF Cleanup, uploadVars, memoryVars, ImagesOwned
  <1>9. QED
    BY <1>1, <1>2, <1>3, <1>4, <1>5, <1>6, <1>7, <1>8 DEF AccumulatorNext

(* In the first process and until something fails, an image in the bucket  *)
(* has its record in the bucket, in memory or in the hands of a thread, or *)
(* lost it to an accepted accumulation.                                    *)
THEOREM NoImageIsOrphaned == AccumulatorSpec => []ImagesBelongToRecords
  <1>1. Init => ImagesOwned
    BY DEF Init, ImagesOwned
  <1>2. ASSUME TypeInv, ImagesOwned
        PROVE  ImagesBelongToRecords
    <2>1. \A s \in Samples : stored[s] > 0 => InBucket(s) \/ deleted[s] > 0
      BY <1>2 DEF TypeInv, TypeOK, InBucket
    <2>2. images \subseteq Samples
      BY <1>2 DEF TypeInv
    <2>3. QED
      BY <1>2, <2>1, <2>2 DEF ImagesOwned, ImagesBelongToRecords
  <1>3. QED
    BY <1>1, <1>2, ImagesStep, TypeInvariant, PTL DEF AccumulatorSpec

-----------------------------------------------------------------------------
(* Only a failed upload puts records back.                                 *)
FlushInv ==
    /\ FullBufferIsFlushed
    /\ faults = 0 => \A t \in Threads : pc[t] # "requeue"

LEMMA FlushStep ==
    ASSUME TypeInv, FlushInv, [AccumulatorNext]_vars
    PROVE  FlushInv'
  <1> USE DEF TypeInv
  <1> SUFFICES ASSUME faults' = 0
               PROVE  /\ Len(buffer') >= Threshold => \E t \in Threads : pc'[t] = "flush"
                      /\ \A t \in Threads : pc'[t] # "requeue"
    BY DEF FlushInv, FullBufferIsFlushed
  <1>0. /\ faults \in Nat /\ \A call : ~Fault(call)
        /\ pc \in [Threads -> {"idle", "append", "flush", "put", "requeue"}]
        /\ Len(<<>>) = 0
        /\ Len(buffer) \in Nat
    BY FaultCounts, LenProperties, EmptySeq DEF TypeOK
  <1> DEFINE Ready == /\ Len(buffer) >= Threshold => \E t \in Threads : pc[t] = "flush"
                      /\ \A t \in Threads : pc[t] # "requeue"
  <1>1. faults = 0 => Ready
    BY DEF FlushInv, FullBufferIsFlushed
  <1>2. ASSUME NEW t \in Threads, NEW s \in Samples, UploadImage(t, s)
        PROVE  Ready'
    <2>1. faults = 0 /\ pc[t] = "idle" /\ Goto(t, "append") /\ buffer' = buffer
      BY <1>0, <1>2 DEF UploadImage
    <2>2. QED
      BY <1>0, <1>1, <2>1 DEF Goto
  <1>3. ASSUME NEW t \in Threads, NEW s \in Samples, AppendRecord(t, s)
        PROVE  Ready'
    <2>1. faults = 0 /\ Len(buffer') = Len(buffer) + 1
      BY <1>3, ElementsOfAppend DEF AppendRecord, TypeOK
    <2>2. Goto(t, IF Len(buffer) + 1 >= Threshold THEN "flush" ELSE "idle")
      BY <1>3 DEF AppendRecord
    <2>3. CASE Len(buffer) + 1 >= Threshold
      BY <1>0, <1>1, <2>1, <2>2, <2>3 DEF Goto
    <2>4. CASE ~(Len(buffer) + 1 >= Threshold)
      BY <1>0, <1>1, <2>1, <2>2, <2>4 DEF Goto
    <2>5. QED
      BY <2>3, <2>4
  <1>4. ASSUME NEW t \in Threads, TakeBatch(t)
        PROVE  Ready'
    <2>1. faults = 0 /\ Len(buffer') = 0 /\ \E l \in {"idle", "put"} : Goto(t, l)
      BY <1>0, <1>4 DEF TakeBatch
    <2>2. QED
      BY <1>0, <1>1, <2>1 DEF Goto
  <1>5. ASSUME NEW t \in Threads, PutBatch(t)
        PROVE  Ready'
    <2>1. faults = 0 /\ buffer' = buffer /\ pc[t] = "put" /\ Goto(t, "idle")
      BY <1>0, <1>5 DEF PutBatch
    <2>2. QED
      BY <1>0, <1>1, <2>1 DEF Goto
  <1>6. ASSUME NEW t \in Threads, Requeue(t)
        PROVE  Ready'
    BY <1>1, <1>6 DEF Requeue
  <1>7. ASSUME NEW t \in Threads, Shutdown(t)
        PROVE  Ready'
    BY <1>0, <1>1, <1>7 DEF Shutdown, Goto
  <1>8. CASE EndAccumulator
    <2>1. EndProcess
      BY <1>8 DEF EndAccumulator, Exit, Crash
    <2>2. QED
      BY <1>0, <2>1 DEF EndProcess
  <1>9. CASE UNCHANGED vars
    BY <1>1, <1>9 DEF vars, uploadVars, memoryVars
  <1>10. ASSUME NEW r \in Samples, Cleanup(r)
        PROVE  Ready'
    BY <1>10, <1>1 DEF Cleanup, uploadVars, memoryVars
  <1>11. QED
    BY <1>2, <1>3, <1>4, <1>5, <1>6, <1>7, <1>8, <1>9, <1>10
       DEF AccumulatorNext, AddWithoutImage, Log, AddSample, FlushSamples, Flush

(* Until something fails, a buffer that has reached the threshold has a    *)
(* thread on its way to flush it.                                          *)
THEOREM FullBufferHasFlusher == AccumulatorSpec => []FullBufferIsFlushed
  <1>1. Init => FlushInv
    BY EmptySeq DEF Init, InitUpload, InitMemory, FlushInv, FullBufferIsFlushed
  <1>2. FlushInv => FullBufferIsFlushed
    BY DEF FlushInv
  <1>3. QED
    BY <1>1, <1>2, FlushStep, TypeInvariant, PTL DEF AccumulatorSpec

-----------------------------------------------------------------------------
(* A record in memory is stored only by uploads whose answers were lost.   *)
CopiesInv ==
    \A s \in Samples : stored[s] <= unknown + (IF s \in InMemory THEN 0 ELSE 1)

LEMMA CopiesAppend ==
    ASSUME TypeInv, HeldOnceInv, CopiesInv, NEW t \in Threads, NEW r \in Samples,
           AppendRecord(t, r), r \notin accepted
    PROVE  CopiesInv'
  <1> SUFFICES ASSUME NEW s \in Samples
               PROVE  stored'[s] <= unknown' + (IF s \in InMemory' THEN 0 ELSE 1)
    BY DEF CopiesInv
  <1>1. stored' = stored /\ unknown' = unknown /\ InMemory' = InMemory \cup {r}
    BY AppendMoves
  <1>2. stored[s] \in Nat /\ unknown \in Nat /\ (s = r => stored[s] = 0)
    BY DEF HeldOnceInv, TypeInv, TypeOK
  <1>3. QED
    BY <1>1, <1>2 DEF CopiesInv

LEMMA CopiesPut ==
    ASSUME TypeInv, HeldOnceInv, CopiesInv, NEW t \in Threads, PutBatch(t)
    PROVE  CopiesInv'
  <1> SUFFICES ASSUME NEW s \in Samples
               PROVE  stored'[s] <= unknown' + (IF s \in InMemory' THEN 0 ELSE 1)
    BY DEF CopiesInv
  <1>1. stored[s] \in Nat /\ unknown \in Nat
    BY DEF TypeInv, TypeOK
  <1>2. stored[s] <= unknown + (IF s \in InMemory THEN 0 ELSE 1)
    BY DEF CopiesInv
  <1>3. InMemory \ Held(t) \subseteq InMemory' /\ InMemory' \subseteq InMemory
    BY PutMoves
  <1>4. s \in Held(t) => s \in InMemory
    BY MemoryIs
  <1>5. Store(t) => /\ stored'[s] = stored[s] + Occurrences(batch[t], s)
                    /\ Occurrences(batch[t], s) \in {0, 1}
                    /\ Occurrences(batch[t], s) = 1 <=> s \in Held(t)
    <2>1. Distinct(batch[t])
      BY DEF HeldOnceInv
    <2>2. QED
      BY <2>1, StoreCounts DEF TypeInv, Held
  <1>6. CASE UNCHANGED <<batch, stored, unknown>>
    <2>1. InMemory' = InMemory
      BY <1>6, PutMoves, MemoryKept
    <2>2. QED
      BY <1>2, <1>6, <2>1
  <1>7. CASE Store(t) /\ unknown' = unknown + 1 /\ UNCHANGED batch
    <2>1. InMemory' = InMemory
      BY <1>7, PutMoves, MemoryKept
    <2>2. QED
      BY <1>1, <1>2, <1>5, <1>7, <2>1
  <1>8. CASE Store(t) /\ batch' = [batch EXCEPT ![t] = <<>>] /\ UNCHANGED <<unknown, faults>>
    <2>1. batch \in [Threads -> Seq(Samples)]
      BY DEF TypeInv, TypeOK
    <2>2. Held(t)' = {} /\ \A u \in Threads : u # t => Held(u)' = Held(u)
      BY <1>8, <2>1, ElementsEmpty DEF Held
    <2>3. s \in Held(t) => s \notin InMemory'
      <3>1. buffer' = buffer
        BY PutMoves
      <3>2. QED
        BY <2>2, <3>1, MemoryIs DEF HeldOnceInv
    <2>4. QED
      BY <1>1, <1>2, <1>3, <1>4, <1>5, <1>8, <2>3
  <1>9. QED
    BY <1>6, <1>7, <1>8, PutMoves

LEMMA CopiesStep ==
    ASSUME TypeInv, HeldOnceInv, CopiesInv, [AccumulatorNext]_vars
    PROVE  CopiesInv'
  <1>1. ASSUME UNCHANGED <<stored, unknown>>, InMemory' = InMemory \/ InMemory' = {}
        PROVE  CopiesInv'
    <2> SUFFICES ASSUME NEW s \in Samples
                 PROVE  stored'[s] <= unknown' + (IF s \in InMemory' THEN 0 ELSE 1)
      BY DEF CopiesInv
    <2>1. stored[s] \in Nat /\ unknown \in Nat
      BY DEF TypeInv, TypeOK
    <2>2. QED
      BY <1>1, <2>1 DEF CopiesInv
  <1>2. ASSUME NEW t \in Threads, NEW s \in Samples, UploadImage(t, s)
        PROVE  CopiesInv'
    BY <1>1, <1>2, MemoryKept DEF UploadImage
  <1>3. ASSUME NEW t \in Threads, NEW s \in Samples, AddWithoutImage(t, s)
        PROVE  CopiesInv'
    BY <1>3, CopiesAppend DEF AddWithoutImage, Log
  <1>4. ASSUME NEW t \in Threads, AddSample(t)
        PROVE  CopiesInv'
    <2>1. PICK s \in Samples : adding[t] = {s} /\ AppendRecord(t, s)
      BY <1>4 DEF AddSample, TypeInv
    <2>2. s \notin accepted
      BY <2>1 DEF HeldOnceInv
    <2>3. QED
      BY <2>1, <2>2, CopiesAppend
  <1>5. ASSUME NEW t \in Threads, FlushSamples(t)
        PROVE  CopiesInv'
    BY <1>1, <1>5, TakeMoves, CopiesPut, RequeueMoves DEF FlushSamples, Flush
  <1>6. ASSUME NEW t \in Threads, Shutdown(t)
        PROVE  CopiesInv'
    BY <1>1, <1>6, MemoryKept DEF Shutdown
  <1>7. CASE EndAccumulator
    BY <1>1, <1>7, EndMoves DEF EndAccumulator, Exit, Crash
  <1>8. CASE UNCHANGED vars
    BY <1>1, <1>8, MemoryKept DEF vars, uploadVars, memoryVars
  <1>9. ASSUME NEW r \in Samples, Cleanup(r)
        PROVE  CopiesInv'
    BY <1>9, <1>1, MemoryKept DEF Cleanup, uploadVars, memoryVars
  <1>10. QED
    BY <1>2, <1>3, <1>4, <1>5, <1>6, <1>7, <1>8, <1>9 DEF AccumulatorNext

(* The places of a record that is held once: one in memory at most, and    *)
(* one per object of the bucket that has it.                               *)
MemoryPlaces(s) ==
    {<<"buffer", i>> : i \in {j \in DOMAIN buffer : buffer[j] = s}}
        \cup UNION {{<<t, i>> : i \in {j \in DOMAIN batch[t] : batch[t][j] = s}}
                       : t \in Threads}

LEMMA OneMemoryPlace ==
    ASSUME HeldOnceInv, NEW s \in Samples
    PROVE  /\ s \notin InMemory => MemoryPlaces(s) = {}
           /\ \E p : MemoryPlaces(s) \subseteq {p}
  <1>1. /\ \A i \in DOMAIN buffer : buffer[i] = s => s \in Elements(buffer)
        /\ \A t \in Threads : \A i \in DOMAIN batch[t] : batch[t][i] = s => s \in Held(t)
    BY DEF Elements, Held
  <1>2. s \notin InMemory => MemoryPlaces(s) = {}
    BY <1>1, MemoryIs DEF MemoryPlaces
  <1>3. CASE s \in Elements(buffer)
    <2>1. PICK i \in DOMAIN buffer : buffer[i] = s
      BY <1>3 DEF Elements
    <2>2. \A j \in DOMAIN buffer : buffer[j] = s => j = i
      BY <2>1 DEF HeldOnceInv, Distinct
    <2>3. \A t \in Threads : s \notin Held(t)
      BY <1>3 DEF HeldOnceInv
    <2>4. MemoryPlaces(s) \subseteq {<<"buffer", i>>}
      BY <1>1, <2>2, <2>3 DEF MemoryPlaces
    <2>5. QED
      BY <1>2, <2>4
  <1>4. ASSUME NEW t \in Threads, s \in Held(t)
        PROVE  \E p : MemoryPlaces(s) \subseteq {p}
    <2>1. PICK i \in DOMAIN batch[t] : batch[t][i] = s
      BY <1>4 DEF Elements, Held
    <2>2. \A j \in DOMAIN batch[t] : batch[t][j] = s => j = i
      BY <2>1 DEF HeldOnceInv, Distinct
    <2>3. s \notin Elements(buffer) /\ \A u \in Threads : u # t => s \notin Held(u)
      BY <1>4 DEF HeldOnceInv
    <2>4. MemoryPlaces(s) \subseteq {<<t, i>>}
      BY <1>1, <2>2, <2>3 DEF MemoryPlaces
    <2>5. QED
      BY <2>4
  <1>5. QED
    BY <1>2, <1>3, <1>4, MemoryIs

LEMMA StoredPlacesCount ==
    ASSUME NEW n \in Nat
    PROVE  /\ IsFiniteSet({<<"stored", i>> : i \in 1..n})
           /\ Cardinality({<<"stored", i>> : i \in 1..n}) <= n
           /\ Cardinality({<<"stored", i>> : i \in 1..n}) \in Nat
  <1> DEFINE T == {<<"stored", i>> : i \in 1..n}
             f == [i \in 1..n |-> <<"stored", i>>]
  <1>1. f \in Surjection(1..n, T)
    BY DEF Surjection
  <1>2. IsFiniteSet(1..n) /\ Cardinality(1..n) = n
    BY FS_Interval
  <1>3. IsFiniteSet(T) /\ Cardinality(T) <= n
    BY <1>1, <1>2, FS_Surjection
  <1>4. QED
    BY <1>3, FS_CardinalityType

LEMMA PlacesCount ==
    ASSUME TypeInv, HeldOnceInv, CopiesInv
    PROVE  DuplicatesNeedLostAnswers
  <1> SUFFICES ASSUME NEW s \in Samples
               PROVE  Cardinality(Places(s)) <= 1 + unknown
    BY DEF DuplicatesNeedLostAnswers
  <1> DEFINE T == {<<"stored", i>> : i \in 1..stored[s]}
  <1>1. Places(s) = T \cup MemoryPlaces(s)
    BY DEF Places, MemoryPlaces
  <1>2. stored[s] \in Nat /\ unknown \in Nat
    BY DEF TypeInv, TypeOK
  <1>3. IsFiniteSet(T) /\ Cardinality(T) <= stored[s] /\ Cardinality(T) \in Nat
    BY <1>2, StoredPlacesCount
  <1>4. stored[s] <= unknown + (IF s \in InMemory THEN 0 ELSE 1)
    BY DEF CopiesInv
  <1>5. CASE MemoryPlaces(s) = {}
    <2>1. Places(s) = T
      BY <1>1, <1>5
    <2>2. QED
      BY <1>2, <1>3, <1>4, <2>1
  <1>6. CASE MemoryPlaces(s) # {}
    <2>1. PICK p : MemoryPlaces(s) = {p}
      BY <1>6, OneMemoryPlace
    <2>2. s \in InMemory
      BY <1>6, OneMemoryPlace
    <2>3. Cardinality(T \cup {p}) = IF p \in T THEN Cardinality(T) ELSE Cardinality(T) + 1
      BY <1>3, FS_AddElement
    <2>4. Places(s) = T \cup {p}
      BY <1>1, <2>1
    <2>5. QED
      BY <1>2, <1>3, <1>4, <2>2, <2>3, <2>4
  <1>7. QED
    BY <1>5, <1>6

(* However threads interleave, uploads fail and the process dies, a record *)
(* is held in one place only, but for one more per upload whose answer was *)
(* lost.                                                                   *)
THEOREM DuplicatesAreLostAnswers == AccumulatorSpec => []DuplicatesNeedLostAnswers
  <1>1. Init => CopiesInv
    BY DEF Init, InitUpload, CopiesInv
  <1>2. AccumulatorSpec => []CopiesInv
    BY <1>1, CopiesStep, HeldOnce, TypeInvariant, PTL DEF AccumulatorSpec
  <1>3. QED
    BY <1>2, PlacesCount, HeldOnce, TypeInvariant, PTL

-----------------------------------------------------------------------------
(* The refinement: the status of a record, before and after a step.        *)
StatusMap == [s \in Samples |-> Status(s)]

LEMMA StatusIs ==
    ASSUME TypeOK, NEW s \in Samples
    PROVE  Status(s) = IF stored[s] > 0 THEN "delivered"
                       ELSE IF s \in InMemory THEN "pending"
                       ELSE IF s \in accepted THEN "lost" ELSE "new"
  <1>1. stored[s] \in Nat
    BY DEF TypeOK
  <1>2. CASE stored[s] > 0
    BY <1>1, <1>2 DEF Status
  <1>3. CASE stored[s] = 0 /\ s \in InMemory
    BY <1>3 DEF Status
  <1>4. CASE stored[s] = 0 /\ s \notin InMemory /\ s \in accepted
    BY <1>4 DEF Status
  <1>5. CASE stored[s] = 0 /\ s \notin InMemory /\ s \notin accepted
    BY <1>5 DEF Status
  <1>6. QED
    BY <1>1, <1>2, <1>3, <1>4, <1>5

LEMMA StatusWillBe ==
    ASSUME TypeOK', NEW s \in Samples
    PROVE  Status(s)' = IF stored'[s] > 0 THEN "delivered"
                        ELSE IF s \in InMemory' THEN "pending"
                        ELSE IF s \in accepted' THEN "lost" ELSE "new"
  <1>1. stored'[s] \in Nat
    BY DEF TypeOK
  <1>2. CASE stored'[s] > 0
    BY <1>1, <1>2 DEF Status
  <1>3. CASE stored'[s] = 0 /\ s \in InMemory'
    BY <1>3 DEF Status
  <1>4. CASE stored'[s] = 0 /\ s \notin InMemory' /\ s \in accepted'
    BY <1>4 DEF Status
  <1>5. CASE stored'[s] = 0 /\ s \notin InMemory' /\ s \notin accepted'
    BY <1>5 DEF Status
  <1>6. QED
    BY <1>1, <1>2, <1>3, <1>4, <1>5

(* Steps that change the status of no record.                              *)
LEMMA StatusKept ==
    ASSUME TypeOK, TypeOK', InMemory' = InMemory, UNCHANGED <<stored, accepted, process>>
    PROVE  UNCHANGED Delivery!vars
  <1>1. ASSUME NEW s \in Samples
        PROVE  Status(s)' = Status(s)
    BY StatusIs, StatusWillBe
  <1>2. StatusMap' = StatusMap
    BY <1>1 DEF StatusMap
  <1>3. QED
    BY <1>2 DEF Delivery!vars, StatusMap

LEMMA AppendIsAccept ==
    ASSUME TypeInv, TypeInv', HeldOnceInv, NEW t \in Threads, NEW r \in Samples,
           AppendRecord(t, r), r \notin accepted
    PROVE  Delivery!Accept(r)
  <1>1. /\ InMemory' = InMemory \cup {r}
        /\ accepted' = accepted \cup {r}
        /\ UNCHANGED <<stored, process>>
    BY AppendMoves
  <1>2. stored[r] \in Nat /\ ~(stored[r] > 0) /\ r \notin InMemory
    BY MemoryIs DEF HeldOnceInv, TypeInv, TypeOK
  <1>3. Status(r) = "new"
    BY <1>2, StatusIs DEF TypeInv
  <1>4. ASSUME NEW s \in Samples
        PROVE  Status(s)' = IF s \in {r} THEN "pending" ELSE Status(s)
    BY <1>1, <1>2, StatusIs, StatusWillBe DEF TypeInv
  <1>5. /\ StatusMap[r] = "new"
        /\ StatusMap' = [s \in Samples |-> IF s \in {r} THEN "pending" ELSE StatusMap[s]]
    BY <1>3, <1>4 DEF StatusMap
  <1>6. QED
    BY <1>1, <1>5 DEF Delivery!Accept, Delivery!Change, StatusMap

LEMMA PutIsDelivery ==
    ASSUME TypeInv, TypeInv', HeldOnceInv, NEW t \in Threads, PutBatch(t)
    PROVE  Delivery!Deliver \/ UNCHANGED Delivery!vars
  <1>1. /\ InMemory \ Held(t) \subseteq InMemory'
        /\ InMemory' \subseteq InMemory
        /\ UNCHANGED <<accepted, process>>
    BY PutMoves
  <1>2. CASE UNCHANGED <<batch, stored, unknown>>
    BY <1>1, <1>2, MemoryKept, PutMoves, StatusKept DEF TypeInv
  <1>3. CASE Store(t)
    <2> DEFINE S == {s \in Samples : stored[s] = 0 /\ s \in Held(t)}
    <2>1. ASSUME NEW s \in Samples
          PROVE  /\ stored[s] \in Nat
                 /\ stored'[s] > 0 <=> (stored[s] > 0 \/ s \in Held(t))
                 /\ s \in Held(t) => s \in InMemory
      BY <1>3, StoreCounts, MemoryIs DEF TypeInv, Held
    <2>2. ASSUME NEW s \in S
          PROVE  Status(s) = "pending"
      BY <2>1, StatusIs DEF TypeInv
    <2>3. ASSUME NEW s \in Samples
          PROVE  Status(s)' = IF s \in S THEN "delivered" ELSE Status(s)
      <3>1. stored[s] > 0 \/ stored[s] = 0
        BY <2>1
      <3>2. stored[s] = 0 => ~(stored[s] > 0)
        OBVIOUS
      <3>3. QED
        BY <1>1, <2>1, <3>1, <3>2, StatusIs, StatusWillBe DEF TypeInv
    <2>4. /\ S \in SUBSET {s \in Samples : StatusMap[s] = "pending"}
          /\ \A s \in S : StatusMap[s] = "pending"
          /\ StatusMap' = [s \in Samples |-> IF s \in S THEN "delivered" ELSE StatusMap[s]]
      BY <2>2, <2>3 DEF StatusMap
    <2> HIDE DEF S
    <2>5. Delivery!Deliver
      BY <1>1, <2>4 DEF Delivery!Deliver, Delivery!Change, Delivery!Pending, StatusMap
    <2>6. QED
      BY <2>5
  <1>4. QED
    BY <1>2, <1>3, PutMoves

LEMMA EndIsEnd ==
    ASSUME TypeInv, TypeInv', HeldOnceInv, EndProcess
    PROVE  Delivery!EndProcess
  <1>1. InMemory' = {} /\ process' = process + 1 /\ UNCHANGED <<stored, accepted>>
    BY EndMoves
  <1>2. \A s \in InMemory : s \in accepted
    BY MemoryIs DEF HeldOnceInv
  <1>3. ASSUME NEW s \in Samples
        PROVE  Status(s)' = IF Status(s) = "pending" THEN "lost" ELSE Status(s)
    BY <1>1, <1>2, StatusIs, StatusWillBe DEF TypeInv
  <1> DEFINE P == {s \in Samples : StatusMap[s] = "pending"}
  <1>4. /\ \A s \in P : StatusMap[s] = "pending"
        /\ StatusMap' = [s \in Samples |-> IF s \in P THEN "lost" ELSE StatusMap[s]]
    BY <1>3 DEF StatusMap
  <1>5. QED
    BY <1>1, <1>4 DEF Delivery!EndProcess, Delivery!Change, Delivery!Pending, StatusMap

LEMMA StepsDeliver ==
    ASSUME TypeInv, HeldOnceInv, [AccumulatorNext]_vars
    PROVE  [Delivery!Next]_(Delivery!vars)
  <1>0. TypeInv' /\ TypeOK /\ TypeOK'
    BY TypeInvStep DEF TypeInv
  <1>1. ASSUME NEW t \in Threads, NEW s \in Samples, UploadImage(t, s)
        PROVE  UNCHANGED Delivery!vars
    BY <1>0, <1>1, MemoryKept, StatusKept DEF UploadImage
  <1>2. ASSUME NEW t \in Threads, NEW s \in Samples, AddWithoutImage(t, s)
        PROVE  Delivery!Next
    BY <1>0, <1>2, AppendIsAccept DEF AddWithoutImage, Log, Delivery!Next
  <1>3. ASSUME NEW t \in Threads, AddSample(t)
        PROVE  Delivery!Next
    <2>1. PICK s \in Samples : adding[t] = {s} /\ AppendRecord(t, s)
      BY <1>3 DEF AddSample, TypeInv
    <2>2. s \notin accepted
      BY <2>1 DEF HeldOnceInv
    <2>3. QED
      BY <1>0, <2>1, <2>2, AppendIsAccept DEF Delivery!Next
  <1>4. ASSUME NEW t \in Threads, FlushSamples(t)
        PROVE  Delivery!Next \/ UNCHANGED Delivery!vars
    <2>1. CASE TakeBatch(t) \/ Requeue(t)
      BY <1>0, <2>1, TakeMoves, RequeueMoves, StatusKept
    <2>2. CASE PutBatch(t)
      BY <1>0, <2>2, PutIsDelivery DEF Delivery!Next
    <2>3. QED
      BY <1>4, <2>1, <2>2 DEF FlushSamples, Flush
  <1>5. ASSUME NEW t \in Threads, Shutdown(t)
        PROVE  UNCHANGED Delivery!vars
    BY <1>0, <1>5, MemoryKept, StatusKept DEF Shutdown
  <1>6. CASE EndAccumulator
    BY <1>0, <1>6, EndIsEnd DEF EndAccumulator, Exit, Crash, Delivery!Next
  <1>7. CASE UNCHANGED vars
    BY <1>0, <1>7, MemoryKept, StatusKept DEF vars, uploadVars, memoryVars
  <1>8. ASSUME NEW r \in Samples, Cleanup(r)
        PROVE  UNCHANGED Delivery!vars
    BY <1>8, <1>0, MemoryKept, StatusKept DEF Cleanup, uploadVars, memoryVars
  <1>9. QED
    BY <1>1, <1>2, <1>3, <1>4, <1>5, <1>6, <1>7, <1>8 DEF AccumulatorNext

(* The buffer, its flushes and its failures deliver what they accept: a    *)
(* record is pending until it is in the bucket, and only the end of the    *)
(* process loses one.                                                      *)
THEOREM BufferImplementsDelivery == AccumulatorSpec => ImplementsDelivery
  <1>1. Init => Delivery!Init
    <2> SUFFICES ASSUME Init
                 PROVE  Delivery!Init
      OBVIOUS
    <2>1. TypeOK
      BY TypeInvInit DEF TypeInv
    <2>2. Elements(buffer) = {} /\ \A t \in Threads : Held(t) = {}
      BY ElementsEmpty DEF Init, InitUpload, InitMemory, Held
    <2>3. ASSUME NEW s \in Samples
          PROVE  Status(s) = "new"
      <3>1. stored[s] = 0 /\ s \notin accepted /\ s \notin InMemory
        BY <2>2, MemoryIs DEF Init, InitUpload
      <3>2. QED
        BY <2>1, <3>1, StatusIs
    <2>4. QED
      BY <2>3 DEF Init, InitUpload, Delivery!Init
  <1>2. QED
    BY <1>1, StepsDeliver, HeldOnce, TypeInvariant, PTL
       DEF AccumulatorSpec, ImplementsDelivery, Delivery!Spec

=============================================================================
