-------------------------- MODULE ReloadSync_proofs --------------------------
(***************************************************************************)
(* Theorems about ReloadSync, for any workers in any containers, any       *)
(* addresses and versions, and any number of reloads, moves and faults.    *)
(***************************************************************************)
EXTENDS ReloadSync, SequenceTheorems, TLAPS

USE AddressAssumption, BoundAssumption

Messages == [address : Addresses, source : {Id[w] : w \in Workers}]

LEMMA LoadsModel ==
    ASSUME registry \in [Addresses -> Versions], NEW a \in Addresses
    PROVE  Load(a) \in Models /\ Load(a).address = a
  BY DEF Load, Models

LEMMA NoModelIsNoModel == NoModel \notin Models
  BY DEF NoModel, Models

LEMMA FaultCounts ==
    ASSUME TypeOK
    PROVE  /\ \A call : Fault(call) => faults' \in 0..MaxFaults
           /\ NoFault => faults' \in 0..MaxFaults
  BY DEF TypeOK, Fault, NoFault

LEMMA TargetIsAddress ==
    ASSUME TypeOK, NEW w \in Workers, NEW body \in Addresses \cup {NoAddress}
    PROVE  Target(w, body) \in Addresses
  <1>1. state[w].address # NoAddress => state[w].address \in Addresses
    <2>1. state[w] \in Models \/ state[w] = NoModel
      BY DEF TypeOK
    <2>2. state[w] \in Models => state[w].address \in Addresses
      BY DEF Models
    <2>3. NoModel.address = NoAddress
      BY DEF NoModel
    <2>4. QED
      BY <2>1, <2>2, <2>3
  <1>2. QED
    BY <1>1 DEF Target

LEMMA HeadAndTail ==
    ASSUME NEW S, NEW q \in Seq(S), q # <<>>
    PROVE  /\ Head(q) \in S /\ Tail(q) \in Seq(S)
           /\ Head(q) = q[1] /\ 1 \in DOMAIN q
           /\ \A i \in DOMAIN Tail(q) : (i + 1) \in DOMAIN q /\ Tail(q)[i] = q[i + 1]
           /\ \A i \in DOMAIN q : i # 1 => (i - 1) \in DOMAIN Tail(q) /\ Tail(q)[i - 1] = q[i]
  <1>1. /\ Head(q) \in S /\ Tail(q) \in Seq(S)
        /\ Len(Tail(q)) = Len(q) - 1
        /\ \A i \in 1..Len(Tail(q)) : Tail(q)[i] = q[i + 1]
        /\ Head(q) = q[1]
    BY HeadTailProperties
  <1>2. Len(q) \in Nat \ {0} /\ DOMAIN q = 1..Len(q) /\ DOMAIN Tail(q) = 1..Len(Tail(q))
    BY <1>1, EmptySeq, LenProperties
  <1>3. QED
    BY <1>1, <1>2

-----------------------------------------------------------------------------
LEMMA TypeInit == Init => TypeOK
  <1> SUFFICES ASSUME Init
               PROVE  TypeOK
    OBVIOUS
  <1>1. registry \in [Addresses -> Versions]
    BY DEF Init
  <1>2. \A w \in Workers : Load(Configured[Home[w]]) \in Models
    BY <1>1, LoadsModel
  <1>3. state \in [Workers -> Models \cup {NoModel}]
    BY <1>2 DEF Init
  <1>4. inbox \in [Workers -> Seq(Messages)]
    BY EmptySeq DEF Init
  <1>5. loaded \in [Workers -> Models \cup {NoModel}]
    BY DEF Init
  <1>6. /\ handler \in [Workers -> {"idle", "assign", "publish"}]
        /\ listener \in [Workers -> {"starting", "subscribed", "dead"}]
        /\ fetched \in [Workers -> SUBSET Models]
        /\ \A w \in Workers : handler[w] = "idle" /\ loaded[w] = NoModel
        /\ \A w \in Workers : listener[w] = "subscribed"
    BY DEF Init
  <1>7. last = NoReload /\ crossed \in BOOLEAN /\ missed \subseteq Workers
    BY DEF Init
  <1>8. reloads \in 0..MaxReloads /\ moves \in 0..MaxMoves /\ faults \in 0..MaxFaults
    BY DEF Init
  <1>9. QED
    BY <1>1, <1>3, <1>4, <1>5, <1>6, <1>7, <1>8 DEF TypeOK, Messages

LEMMA RequestType ==
    ASSUME TypeOK, NEW w \in Workers, NEW body \in Addresses \cup {NoAddress},
           RequestReload(w, body)
    PROVE  TypeOK'
  <1>1. reloads' \in 0..MaxReloads /\ faults' \in 0..MaxFaults
    BY FaultCounts DEF RequestReload, TypeOK
  <1>2. Target(w, body) \in Addresses /\ Load(Target(w, body)) \in Models
    BY TargetIsAddress, LoadsModel DEF TypeOK
  <1>3. CASE handler' = [handler EXCEPT ![w] = "assign"]
    <2>1. /\ loaded' = [loaded EXCEPT ![w] = Load(Target(w, body))]
          /\ last' = <<Target(w, body), Home[w]>>
          /\ missed' = Workers
          /\ crossed' \in BOOLEAN
      BY <1>3 DEF RequestReload, TypeOK
    <2>2. \A v \in Workers : handler'[v] = "idle" <=> loaded'[v] = NoModel
      BY <1>2, <1>3, <2>1, NoModelIsNoModel DEF TypeOK
    <2>3. QED
      BY <1>1, <1>2, <1>3, <2>1, <2>2 DEF RequestReload, TypeOK
  <1>4. CASE UNCHANGED <<loaded, handler, historyVars>>
    BY <1>1, <1>4 DEF RequestReload, TypeOK, historyVars
  <1>5. QED
    BY <1>3, <1>4 DEF RequestReload

LEMMA PublishType ==
    ASSUME TypeOK, NEW w \in Workers, PublishReload(w)
    PROVE  TypeOK'
  <1>1. loaded[w] \in Models
    BY DEF PublishReload, TypeOK
  <1>2. faults' \in 0..MaxFaults
    BY FaultCounts DEF PublishReload
  <1>3. Message(w) \in Messages
    BY <1>1 DEF Message, Messages, Models
  <1>4. /\ inbox' \in [Workers -> Seq(Messages)]
        /\ \A v \in Workers : listener[v] # "subscribed" => inbox'[v] = inbox[v]
        /\ missed' \subseteq Workers
    <2>1. CASE Deliver(w)
      <3>1. \A v \in Workers : Append(inbox[v], Message(w)) \in Seq(Messages)
        BY <1>3, AppendProperties DEF TypeOK, Messages
      <3>2. QED
        BY <2>1, <3>1 DEF Deliver, Subscribers, TypeOK, Messages
    <2>2. CASE NotDelivered(w)
      BY <2>2 DEF NotDelivered, TypeOK, Messages
    <2>3. QED
      BY <2>1, <2>2 DEF PublishReload
  <1>5. last' \in Addresses \X {Home[v] : v \in Workers}
    BY <1>1 DEF PublishReload, Models
  <1>6. QED
    BY <1>2, <1>4, <1>5 DEF PublishReload, TypeOK, Messages

LEMMA ReceiveType ==
    ASSUME TypeOK, NEW w \in Workers, Receive(w)
    PROVE  TypeOK'
  <1>1. inbox[w] \in Seq(Messages) /\ inbox[w] # <<>>
    BY DEF Receive, TypeOK, Messages
  <1>2. Head(inbox[w]) \in Messages /\ Tail(inbox[w]) \in Seq(Messages)
    BY <1>1, HeadAndTail
  <1>3. Load(Head(inbox[w]).address) \in Models
    BY <1>2, LoadsModel DEF TypeOK, Messages
  <1>4. listener[w] = "subscribed"
    BY <1>1 DEF TypeOK
  <1>5. faults' \in 0..MaxFaults /\ missed' \subseteq Workers
    BY FaultCounts DEF Receive, TypeOK
  <1>6. fetched' = fetched \/ fetched' = [fetched EXCEPT ![w] = {Load(Head(inbox[w]).address)}]
    BY DEF Receive
  <1>7. inbox' \in [Workers -> Seq(Messages)] /\ \A v \in Workers : v # w => inbox'[v] = inbox[v]
    BY <1>2 DEF Receive, TypeOK, Messages
  <1>8. fetched' \in [Workers -> SUBSET Models] /\ \A v \in Workers : v # w => fetched'[v] = fetched[v]
    BY <1>3, <1>6 DEF TypeOK
  <1>9. QED
    BY <1>4, <1>5, <1>7, <1>8 DEF Receive, TypeOK, Messages

LEMMA RestartType ==
    ASSUME TypeOK, NEW w \in Workers, Restart(w)
    PROVE  TypeOK'
  <1>1. Load(Configured[Home[w]]) \in Models
    BY LoadsModel DEF TypeOK
  <1>2. faults' \in 0..MaxFaults
    BY DEF Restart, TypeOK
  <1>3. state' \in [Workers -> Models \cup {NoModel}]
    BY <1>1 DEF Restart, TypeOK
  <1>4. listener' = [listener EXCEPT ![w] = "starting"] \/ listener' = [listener EXCEPT ![w] = "dead"]
    BY DEF Restart
  <1>5. inbox' \in [Workers -> Seq(Messages)]
    BY EmptySeq DEF Restart, TypeOK, Messages
  <1>6. QED
    BY <1>2, <1>3, <1>4, <1>5 DEF Restart, TypeOK, Messages

LEMMA TypeStep ==
    ASSUME TypeOK, [Next]_vars
    PROVE  TypeOK'
  <1>1. ASSUME NEW a \in Moving, MoveAlias(a)
        PROVE  TypeOK'
    BY <1>1 DEF MoveAlias, TypeOK, workerVars
  <1>2. ASSUME NEW w \in Workers, AssignReload(w)
        PROVE  TypeOK'
    BY <1>2 DEF AssignReload, TypeOK, historyVars
  <1>3. ASSUME NEW w \in Workers, AssignRemote(w)
        PROVE  TypeOK'
    BY <1>3 DEF AssignRemote, TypeOK, historyVars
  <1>4. ASSUME NEW w \in Workers, Subscribe(w)
        PROVE  TypeOK'
    BY <1>4 DEF Subscribe, TypeOK, historyVars
  <1>5. ASSUME NEW w \in Workers, LoseListener(w)
        PROVE  TypeOK'
    <2>1. inbox' \in [Workers -> Seq(Messages)]
      BY <1>5, EmptySeq DEF LoseListener, TypeOK, Messages
    <2>2. faults' \in 0..MaxFaults /\ missed' \subseteq Workers
      BY <1>5, FaultCounts DEF LoseListener, TypeOK
    <2>3. QED
      BY <1>5, <2>1, <2>2 DEF LoseListener, TypeOK, Messages
  <1>6. CASE UNCHANGED vars
    BY <1>6 DEF vars, workerVars, historyVars, TypeOK
  <1>7. QED
    BY <1>1, <1>2, <1>3, <1>4, <1>5, <1>6, RequestType, PublishType, ReceiveType, RestartType
       DEF Next, HandlerStep, ListenerStep

(* Every variable keeps its type: only a subscription holds messages, and  *)
(* a request has its model for exactly as long as it needs it.             *)
THEOREM TypeCorrect == Spec => []TypeOK
  BY TypeInit, TypeStep, PTL DEF Spec

-----------------------------------------------------------------------------
(* While reloads do not cross, whatever is on its way to a worker is the   *)
(* model of the last reload.                                               *)
Carries(w) ==
    /\ handler[w] # "idle" => loaded[w] = Load(last[1])
    /\ handler[w] = "publish" => state[w] = Load(last[1])
    /\ \A i \in DOMAIN inbox[w] : inbox[w][i].address = last[1]
    /\ \A model \in fetched[w] : model = Load(last[1])

CarriedInv == ~crossed => \A w \in Workers : Carries(w)

(* A worker that the last reload was sent to serves its model, or has it   *)
(* still to load or to assign.                                             *)
Coming(w) == fetched[w] # {} \/ \E i \in DOMAIN inbox[w] : inbox[w][i].source # Id[w]

Agrees(w, v) == Coming(w) \/ state[w] = [address |-> last[1], version |-> v]

AgreeInv ==
    ~crossed =>
        \E v \in Versions :
            /\ ~Quiet => v = registry[last[1]]
            /\ \A w \in Workers \ missed : Home[w] = last[2] => Agrees(w, v)

LEMMA QuietCarriesNothing ==
    ASSUME TypeOK, NEW w \in Workers, ~Busy(w)
    PROVE  handler[w] = "idle" /\ inbox[w] = <<>> /\ fetched[w] = {} /\ ~Coming(w)
  <1>1. DOMAIN <<>> = {}
    OBVIOUS
  <1>2. QED
    BY <1>1 DEF Busy, Coming

LEMMA SameModel ==
    ASSUME registry' = registry, last'[1] = last[1]
    PROVE  Load(last[1])' = Load(last[1])
  BY DEF Load

(* The steps that neither begin a reload nor move an alias.                *)
CalmStep(w) ==
    \/ AssignReload(w)
    \/ Receive(w)
    \/ AssignRemote(w)
    \/ Subscribe(w)
    \/ LoseListener(w)
    \/ Restart(w)

LEMMA CalmFrame ==
    ASSUME NEW w \in Workers, CalmStep(w)
    PROVE  UNCHANGED <<registry, last, crossed>>
  BY DEF CalmStep, AssignReload, Receive, AssignRemote, Subscribe, LoseListener, Restart,
         historyVars

LEMMA CalmCarries ==
    ASSUME TypeOK, NEW w \in Workers, CalmStep(w),
           \A u \in Workers : Carries(u), NEW u \in Workers
    PROVE  Carries(u)'
  <1>1. registry' = registry /\ last' = last
    BY CalmFrame
  <1>2. Load(last[1])' = Load(last[1])
    BY <1>1, SameModel
  <1>3. Carries(u) /\ Carries(w)
    OBVIOUS
  <1> HIDE DEF Load
  <1>4. CASE AssignReload(w)
    <2>1. UNCHANGED <<loaded, inbox, fetched>> /\ handler[w] = "assign"
      BY <1>4 DEF AssignReload
    <2>2. CASE u = w
      <3>1. state'[u] = loaded[u]
        BY <1>4, <2>2 DEF AssignReload, TypeOK
      <3>2. QED
        BY <1>1, <1>2, <1>3, <2>1, <2>2, <3>1 DEF Carries
    <2>3. CASE u # w
      <3>1. state'[u] = state[u] /\ handler'[u] = handler[u]
        BY <1>4, <2>3 DEF AssignReload, TypeOK
      <3>2. QED
        BY <1>1, <1>2, <1>3, <2>1, <3>1 DEF Carries
    <2>4. QED
      BY <2>2, <2>3
  <1>5. CASE Receive(w)
    <2>1. UNCHANGED <<loaded, handler, state>>
      BY <1>5 DEF Receive
    <2>2. CASE u = w
      <3>1. inbox[w] \in Seq(Messages) /\ inbox[w] # <<>> /\ inbox'[w] = Tail(inbox[w])
        BY <1>5 DEF Receive, TypeOK, Messages
      <3>2. \A i \in DOMAIN inbox'[w] : inbox'[w][i].address = last[1]
        BY <1>3, <3>1, HeadAndTail DEF Carries
      <3>3. Load(Head(inbox[w]).address) = Load(last[1])
        BY <1>3, <3>1, HeadAndTail DEF Carries
      <3>4. fetched'[w] = {Load(last[1])} \/ fetched'[w] = fetched[w]
        BY <1>5, <3>3 DEF Receive, TypeOK
      <3>5. QED
        BY <1>1, <1>2, <1>3, <2>1, <2>2, <3>2, <3>4 DEF Carries
    <2>3. CASE u # w
      <3>1. inbox'[u] = inbox[u] /\ fetched'[u] = fetched[u]
        BY <1>5, <2>3 DEF Receive, TypeOK
      <3>2. QED
        BY <1>1, <1>2, <1>3, <2>1, <3>1 DEF Carries
    <2>4. QED
      BY <2>2, <2>3
  <1>6. CASE AssignRemote(w)
    <2>1. UNCHANGED <<loaded, inbox, handler>>
      BY <1>6 DEF AssignRemote
    <2>2. CASE u = w
      <3>1. state'[w] = Load(last[1]) /\ fetched'[w] = {}
        BY <1>3, <1>6 DEF AssignRemote, TypeOK, Carries
      <3>2. QED
        BY <1>1, <1>2, <1>3, <2>1, <2>2, <3>1 DEF Carries
    <2>3. CASE u # w
      <3>1. state'[u] = state[u] /\ fetched'[u] = fetched[u]
        BY <1>6, <2>3 DEF AssignRemote, TypeOK
      <3>2. QED
        BY <1>1, <1>2, <1>3, <2>1, <3>1 DEF Carries
    <2>4. QED
      BY <2>2, <2>3
  <1>7. CASE Subscribe(w)
    BY <1>1, <1>2, <1>3, <1>7 DEF Subscribe, Carries
  <1>8. CASE LoseListener(w)
    <2>1. inbox'[u] = inbox[u] \/ inbox'[u] = <<>>
      BY <1>8 DEF LoseListener, TypeOK
    <2>2. DOMAIN <<>> = {}
      OBVIOUS
    <2>3. QED
      BY <1>1, <1>2, <1>3, <1>8, <2>1, <2>2 DEF LoseListener, Carries
  <1>9. CASE Restart(w)
    <2>1. CASE u = w
      <3>1. handler'[w] = "idle" /\ inbox'[w] = <<>> /\ fetched'[w] = {}
        BY <1>9 DEF Restart, TypeOK
      <3>2. DOMAIN <<>> = {}
        OBVIOUS
      <3>3. QED
        BY <2>1, <3>1, <3>2 DEF Carries
    <2>2. CASE u # w
      <3>1. /\ handler'[u] = handler[u] /\ inbox'[u] = inbox[u] /\ fetched'[u] = fetched[u]
            /\ loaded'[u] = loaded[u] /\ state'[u] = state[u]
        BY <1>9, <2>2 DEF Restart, TypeOK
      <3>2. QED
        BY <1>1, <1>2, <1>3, <3>1 DEF Carries
    <2>3. QED
      BY <2>1, <2>2
  <1>10. QED
    BY <1>4, <1>5, <1>6, <1>7, <1>8, <1>9 DEF CalmStep

LEMMA MoveCarries ==
    ASSUME TypeOK, NEW a \in Moving, MoveAlias(a), ~crossed'
    PROVE  ~crossed /\ Quiet /\ UNCHANGED <<workerVars, last, missed>>
           /\ \A u \in Workers : Carries(u)'
  <1>1. ~crossed /\ Quiet /\ UNCHANGED <<workerVars, last, missed>>
    BY DEF MoveAlias
  <1>2. ASSUME NEW u \in Workers
        PROVE  Carries(u)'
    <2>1. handler'[u] = "idle" /\ inbox'[u] = <<>> /\ fetched'[u] = {}
      BY <1>1, QuietCarriesNothing DEF Quiet, workerVars
    <2>2. DOMAIN <<>> = {}
      OBVIOUS
    <2>3. QED
      BY <2>1, <2>2 DEF Carries
  <1>3. QED
    BY <1>1, <1>2

(* A request that overlaps another asks for the same address, or counts as *)
(* crossing it.                                                            *)
LEMMA RequestCarries ==
    ASSUME TypeOK, CarriedInv, NEW w \in Workers, NEW body \in Addresses \cup {NoAddress},
           RequestReload(w, body), handler' # handler, ~crossed'
    PROVE  /\ missed' = Workers
           /\ last'[1] \in Addresses
           /\ registry' = registry
           /\ \A u \in Workers : Carries(u)'
  <1> DEFINE a == Target(w, body)
  <1>1. /\ loaded' = [loaded EXCEPT ![w] = Load(a)]
        /\ handler' = [handler EXCEPT ![w] = "assign"]
        /\ last' = <<a, Home[w]>>
        /\ crossed' = (~Quiet /\ (crossed \/ last[1] # a))
        /\ missed' = Workers
        /\ handler[w] = "idle"
        /\ UNCHANGED <<registry, state, inbox, fetched>>
    BY DEF RequestReload, historyVars
  <1>2. a \in Addresses
    BY TargetIsAddress
  <1>3. Quiet \/ (~crossed /\ last[1] = a)
    BY <1>1
  <1> HIDE DEF a
  <1>4. Load(last[1])' = Load(a)
    BY <1>1 DEF Load
  <1>5. ASSUME NEW u \in Workers
        PROVE  \/ handler[u] = "idle" /\ inbox[u] = <<>> /\ fetched[u] = {}
               \/ Carries(u) /\ last[1] = a
    BY <1>3, QuietCarriesNothing DEF Quiet, CarriedInv
  <1> HIDE DEF Load
  <1>6. ASSUME NEW u \in Workers
        PROVE  Carries(u)'
    <2>1. DOMAIN <<>> = {}
      OBVIOUS
    <2>2. last'[1] = a
      BY <1>1
    <2>3. /\ \A i \in DOMAIN inbox'[u] : inbox'[u][i].address = last'[1]
          /\ \A model \in fetched'[u] : model = Load(last[1])'
      BY <1>1, <1>4, <1>5, <2>1, <2>2 DEF Carries
    <2>4. CASE u = w
      <3>1. handler'[w] = "assign" /\ loaded'[w] = Load(a)
        BY <1>1 DEF TypeOK
      <3>2. QED
        BY <1>4, <2>3, <2>4, <3>1 DEF Carries
    <2>5. CASE u # w
      <3>1. handler'[u] = handler[u] /\ loaded'[u] = loaded[u] /\ state'[u] = state[u]
        BY <1>1, <2>5 DEF TypeOK
      <3>2. QED
        BY <1>4, <1>5, <2>3, <3>1 DEF Carries
    <2>6. QED
      BY <2>4, <2>5
  <1>7. QED
    BY <1>1, <1>2, <1>6

LEMMA RequestFails ==
    ASSUME NEW w \in Workers, NEW body \in Addresses \cup {NoAddress}, TypeOK,
           RequestReload(w, body), handler' = handler
    PROVE  UNCHANGED <<registry, workerVars, historyVars>>
  <1>1. handler' # [handler EXCEPT ![w] = "assign"]
    BY DEF RequestReload, TypeOK
  <1>2. QED
    BY <1>1 DEF RequestReload, workerVars

(* What a publication does to an inbox.                                    *)
LEMMA PublishMoves ==
    ASSUME TypeOK, NEW w \in Workers, PublishReload(w)
    PROVE  /\ UNCHANGED <<registry, state, fetched, crossed>>
           /\ last' = <<loaded[w].address, Home[w]>>
           /\ handler[w] = "publish" /\ handler'[w] = "idle"
           /\ \A u \in Workers : u # w => handler'[u] = handler[u] /\ loaded'[u] = loaded[u]
           /\ \A u \in Workers :
                 \/ inbox'[u] = inbox[u] /\ (u # w => u \in missed')
                 \/ inbox'[u] = Append(inbox[u], Message(w))
                 \/ inbox'[u] = inbox[u] /\ u = w
  <1>1. Deliver(w) \/ NotDelivered(w)
    BY DEF PublishReload
  <1>2. ASSUME NEW u \in Workers
        PROVE  \/ inbox'[u] = inbox[u] /\ (u # w => u \in missed')
               \/ inbox'[u] = Append(inbox[u], Message(w))
               \/ inbox'[u] = inbox[u] /\ u = w
    BY <1>1 DEF Deliver, NotDelivered
  <1>3. QED
    BY <1>2 DEF PublishReload, TypeOK

LEMMA PublishCarries ==
    ASSUME TypeOK, CarriedInv, NEW w \in Workers, PublishReload(w), ~crossed
    PROVE  /\ last'[1] = last[1]
           /\ last[1] \in Addresses
           /\ state[w] = Load(last[1])
           /\ \A u \in Workers : Carries(u)'
  <1>1. \A u \in Workers : Carries(u)
    BY DEF CarriedInv
  <1>2. loaded[w] \in Models /\ loaded[w] = Load(last[1]) /\ state[w] = Load(last[1])
    BY <1>1, PublishMoves, NoModelIsNoModel DEF TypeOK, Carries
  <1>3. loaded[w].address = last[1] /\ last[1] \in Addresses
    BY <1>2 DEF Load, Models
  <1>4. last'[1] = last[1] /\ Load(last[1])' = Load(last[1])
    BY <1>3, PublishMoves, SameModel
  <1> HIDE DEF Load
  <1>5. ASSUME NEW u \in Workers
        PROVE  Carries(u)'
    <2>1. \A i \in DOMAIN inbox'[u] : inbox'[u][i].address = last[1]
      <3>1. inbox[u] \in Seq(Messages) /\ Message(w) \in Messages /\ Message(w).address = last[1]
        BY <1>3 DEF TypeOK, Messages, Message
      <3>2. CASE inbox'[u] = Append(inbox[u], Message(w))
        <4>1. /\ DOMAIN inbox'[u] = DOMAIN inbox[u] \cup {Len(inbox[u]) + 1}
              /\ \A i \in DOMAIN inbox[u] : inbox'[u][i] = inbox[u][i]
              /\ inbox'[u][Len(inbox[u]) + 1] = Message(w)
          BY <3>1, <3>2, AppendProperties, LenProperties
        <4>2. QED
          BY <1>1, <3>1, <4>1 DEF Carries
      <3>3. CASE inbox'[u] = inbox[u]
        BY <1>1, <3>3 DEF Carries
      <3>4. QED
        BY <3>2, <3>3, PublishMoves
    <2>2. \A model \in fetched'[u] : model = Load(last[1])
      BY <1>1, PublishMoves DEF Carries
    <2>3. handler'[u] # "idle" => loaded'[u] = Load(last[1])
      BY <1>1, PublishMoves DEF Carries
    <2>4. handler'[u] = "publish" => state'[u] = Load(last[1])
      BY <1>1, PublishMoves DEF Carries
    <2>5. QED
      BY <1>4, <2>1, <2>2, <2>3, <2>4 DEF Carries
  <1>6. QED
    BY <1>2, <1>3, <1>4, <1>5

LEMMA StutterCarries ==
    ASSUME UNCHANGED <<registry, workerVars, historyVars>>
    PROVE  (CarriedInv => CarriedInv') /\ (AgreeInv => AgreeInv')
  <1>1. /\ \A w \in Workers : Carries(w) <=> Carries(w)'
        /\ \A w \in Workers, v \in Versions : Agrees(w, v) <=> Agrees(w, v)'
        /\ Quiet => Quiet'
        /\ UNCHANGED <<registry, last, crossed, missed>>
    BY DEF workerVars, historyVars, Carries, Load, Agrees, Coming, Quiet, Busy
  <1>2. CarriedInv => CarriedInv'
    BY <1>1 DEF CarriedInv
  <1>3. ASSUME AgreeInv
        PROVE  AgreeInv'
    <2> SUFFICES ASSUME ~crossed
                 PROVE  \E v \in Versions :
                           /\ ~Quiet' => v = registry'[last'[1]]
                           /\ \A u \in Workers \ missed' : Home[u] = last'[2] => Agrees(u, v)'
      BY <1>1 DEF AgreeInv
    <2>1. PICK v \in Versions : /\ ~Quiet => v = registry[last[1]]
                                /\ \A u \in Workers \ missed : Home[u] = last[2] => Agrees(u, v)
      BY <1>3 DEF AgreeInv
    <2>2. QED
      BY <1>1, <2>1
  <1>4. QED
    BY <1>2, <1>3

LEMMA CarriedStep ==
    ASSUME TypeOK, CarriedInv, [Next]_vars
    PROVE  CarriedInv'
  <1> SUFFICES ASSUME ~crossed'
               PROVE  \A u \in Workers : Carries(u)'
    BY DEF CarriedInv
  <1>1. ASSUME NEW a \in Moving, MoveAlias(a)
        PROVE  \A u \in Workers : Carries(u)'
    BY <1>1, MoveCarries
  <1>2. ASSUME NEW w \in Workers, NEW body \in Addresses \cup {NoAddress}, RequestReload(w, body)
        PROVE  \A u \in Workers : Carries(u)'
    <2>1. CASE handler' # handler
      BY <1>2, <2>1, RequestCarries
    <2>2. CASE handler' = handler
      BY <1>2, <2>2, RequestFails, StutterCarries DEF CarriedInv
    <2>3. QED
      BY <2>1, <2>2
  <1>3. ASSUME NEW w \in Workers, PublishReload(w)
        PROVE  \A u \in Workers : Carries(u)'
    BY <1>3, PublishCarries, PublishMoves
  <1>4. ASSUME NEW w \in Workers, CalmStep(w)
        PROVE  \A u \in Workers : Carries(u)'
    BY <1>4, CalmFrame, CalmCarries DEF CarriedInv
  <1>5. CASE UNCHANGED vars
    BY <1>5, StutterCarries DEF vars, CarriedInv
  <1>6. QED
    BY <1>1, <1>2, <1>3, <1>4, <1>5 DEF Next, HandlerStep, ListenerStep, CalmStep

-----------------------------------------------------------------------------
LEMMA CalmStaysQuiet ==
    ASSUME TypeOK, NEW w \in Workers, CalmStep(w), Quiet
    PROVE  Quiet'
  <1>1. handler[w] = "idle" /\ inbox[w] = <<>> /\ fetched[w] = {}
    BY QuietCarriesNothing DEF Quiet
  <1>2. ~AssignReload(w) /\ ~Receive(w) /\ ~AssignRemote(w)
    BY <1>1 DEF AssignReload, Receive, AssignRemote
  <1>3. \A u \in Workers : /\ handler'[u] = handler[u] \/ handler'[u] = "idle"
                           /\ inbox'[u] = inbox[u] \/ inbox'[u] = <<>>
                           /\ fetched'[u] = fetched[u] \/ fetched'[u] = {}
    <2> SUFFICES ASSUME NEW u \in Workers
                 PROVE  /\ handler'[u] = handler[u] \/ handler'[u] = "idle"
                        /\ inbox'[u] = inbox[u] \/ inbox'[u] = <<>>
                        /\ fetched'[u] = fetched[u] \/ fetched'[u] = {}
      OBVIOUS
    <2>1. CASE Subscribe(w)
      BY <2>1 DEF Subscribe
    <2>2. CASE LoseListener(w)
      BY <2>2 DEF LoseListener, TypeOK
    <2>3. CASE Restart(w)
      BY <2>3 DEF Restart, TypeOK
    <2>4. QED
      BY <1>2, <2>1, <2>2, <2>3 DEF CalmStep
  <1>4. QED
    BY <1>3 DEF Quiet, Busy

(* A worker that has agreed, or will, still does after a step of another   *)
(* one or of its own - unless it counts as having missed the message.      *)
LEMMA CalmAgrees ==
    ASSUME TypeOK, NEW w \in Workers, CalmStep(w), NEW v \in Versions,
           NEW u \in Workers, Carries(u), ~Quiet => v = registry[last[1]],
           u \notin missed => Agrees(u, v), u \notin missed'
    PROVE  Agrees(u, v)'
  <1> DEFINE M == [address |-> last[1], version |-> v]
  <1>1. last' = last
    BY CalmFrame
  <1>2. Busy(u) => Load(last[1]) = M
    BY DEF Quiet, Load
  <1>3. (u \notin missed /\ (Coming(u)' \/ (~Coming(u) /\ state'[u] = M) \/ (~Coming(u) /\ state'[u] = state[u])))
           => Agrees(u, v)'
    BY <1>1 DEF Agrees
  <1> HIDE DEF M, Load
  <1>4. CASE AssignReload(w)
    <2>1. UNCHANGED <<inbox, fetched, missed>> /\ Coming(u)' = Coming(u)
      BY <1>4 DEF AssignReload, historyVars, Coming
    <2>2. CASE u = w
      <3>1. state'[u] = loaded[u] /\ handler[u] # "idle"
        BY <1>4, <2>2 DEF AssignReload, TypeOK
      <3>2. state'[u] = M
        BY <1>2, <3>1 DEF Carries, Busy
      <3>3. QED
        BY <1>1, <3>2 DEF Agrees, M
    <2>3. CASE u # w
      <3>1. state'[u] = state[u]
        BY <1>4, <2>3 DEF AssignReload, TypeOK
      <3>2. QED
        BY <1>1, <2>1, <3>1 DEF Agrees
    <2>4. QED
      BY <2>2, <2>3
  <1>5. CASE Receive(w)
    <2>1. state' = state
      BY <1>5 DEF Receive
    <2>2. u \notin missed
      BY <1>5 DEF Receive
    <2>3. CASE u = w
      <3>1. inbox[w] \in Seq(Messages) /\ inbox[w] # <<>> /\ inbox'[w] = Tail(inbox[w])
        BY <1>5 DEF Receive, TypeOK, Messages
      <3>2. fetched[w] = {}
        BY <1>5 DEF Receive
      <3>3. CASE Head(inbox[w]).source = Id[w]
        <4>1. Coming(w) => Coming(w)'
          <5>1. SUFFICES ASSUME NEW i \in DOMAIN inbox[w], inbox[w][i].source # Id[w]
                         PROVE  \E j \in DOMAIN inbox'[w] : inbox'[w][j].source # Id[w]
            BY <3>2 DEF Coming
          <5>2. i # 1
            BY <3>1, <3>3, <5>1, HeadAndTail
          <5>3. (i - 1) \in DOMAIN inbox'[w] /\ inbox'[w][i - 1] = inbox[w][i]
            BY <3>1, <5>2, HeadAndTail
          <5>4. QED
            BY <5>1, <5>3
        <4>2. QED
          BY <1>1, <2>1, <2>2, <2>3, <4>1 DEF Agrees
      <3>4. CASE Head(inbox[w]).source # Id[w]
        <4>1. w \notin missed'
          BY <2>3
        <4>2. fetched' = [fetched EXCEPT ![w] = {Load(Head(inbox[w]).address)}]
          BY <1>5, <3>4, <4>1 DEF Receive
        <4>3. fetched'[w] # {}
          BY <4>2 DEF TypeOK
        <4>4. QED
          BY <2>3, <4>3 DEF Agrees, Coming
      <3>5. QED
        BY <3>3, <3>4
    <2>4. CASE u # w
      <3>1. inbox'[u] = inbox[u] /\ fetched'[u] = fetched[u]
        BY <1>5, <2>4 DEF Receive, TypeOK
      <3>2. QED
        BY <1>1, <2>1, <2>2, <3>1 DEF Agrees, Coming
    <2>5. QED
      BY <2>3, <2>4
  <1>6. CASE AssignRemote(w)
    <2>1. UNCHANGED <<inbox, missed>>
      BY <1>6 DEF AssignRemote, historyVars
    <2>2. CASE u = w
      <3>1. Busy(u) /\ state'[u] \in fetched[u]
        BY <1>6, <2>2 DEF AssignRemote, TypeOK, Busy
      <3>2. state'[u] = M
        BY <1>2, <3>1 DEF Carries
      <3>3. QED
        BY <1>1, <3>2 DEF Agrees, M
    <2>3. CASE u # w
      <3>1. state'[u] = state[u] /\ fetched'[u] = fetched[u]
        BY <1>6, <2>3 DEF AssignRemote, TypeOK
      <3>2. QED
        BY <1>1, <2>1, <3>1 DEF Agrees, Coming
    <2>4. QED
      BY <2>2, <2>3
  <1>7. CASE Subscribe(w)
    BY <1>1, <1>7 DEF Subscribe, historyVars, Agrees, Coming
  <1>8. CASE LoseListener(w)
    <2>1. state' = state /\ fetched' = fetched
      BY <1>8 DEF LoseListener
    <2>2. u \notin missed
      BY <1>8 DEF LoseListener
    <2>3. inbox'[u] = inbox[u]
      BY <1>8 DEF LoseListener, TypeOK
    <2>4. QED
      BY <1>1, <2>1, <2>2, <2>3 DEF Agrees, Coming
  <1>9. CASE Restart(w)
    <2>1. u # w /\ u \notin missed
      BY <1>9 DEF Restart
    <2>2. inbox'[u] = inbox[u] /\ fetched'[u] = fetched[u] /\ state'[u] = state[u]
      BY <1>9, <2>1 DEF Restart, TypeOK
    <2>3. QED
      BY <1>1, <2>1, <2>2 DEF Agrees, Coming
  <1>10. QED
    BY <1>4, <1>5, <1>6, <1>7, <1>8, <1>9 DEF CalmStep

(* The workers a reload is published to have it in their inbox, and the    *)
(* one that publishes it serves it already; of the same container none     *)
(* takes the message for its own.                                          *)
LEMMA PublishAgrees ==
    ASSUME TypeOK, CarriedInv, NEW w \in Workers, PublishReload(w), ~crossed,
           NEW u \in Workers \ missed', Home[u] = last'[2]
    PROVE  Agrees(u, registry[last[1]])'
  <1>1. /\ last'[1] = last[1] /\ state[w] = Load(last[1])
        /\ state' = state /\ registry' = registry /\ last'[2] = Home[w]
    BY PublishCarries, PublishMoves
  <1>2. CASE u = w
    BY <1>1, <1>2 DEF Agrees, Load
  <1>3. CASE u # w
    <2>1. inbox'[u] = Append(inbox[u], Message(w))
      BY <1>3, PublishMoves
    <2>2. loaded[w] \in Models
      BY DEF PublishReload, TypeOK
    <2>3. inbox[u] \in Seq(Messages) /\ Message(w) \in Messages
      BY <2>2 DEF TypeOK, Messages, Message, Models
    <2>4. /\ Len(inbox[u]) + 1 \in DOMAIN inbox'[u]
          /\ inbox'[u][Len(inbox[u]) + 1] = Message(w)
      BY <2>1, <2>3, AppendProperties, LenProperties
    <2>5. Id[u] # Id[w]
      BY <1>1, <1>3, WorkerAssumption
    <2>6. Message(w).source # Id[u]
      BY <2>5 DEF Message
    <2>7. QED
      BY <2>4, <2>6 DEF Agrees, Coming
  <1>4. QED
    BY <1>2, <1>3

LEMMA AgreeStep ==
    ASSUME TypeOK, CarriedInv, AgreeInv, [Next]_vars
    PROVE  AgreeInv'
  <1> DEFINE Goal == \E v \in Versions :
                        /\ ~Quiet' => v = registry'[last'[1]]
                        /\ \A u \in Workers \ missed' : Home[u] = last'[2] => Agrees(u, v)'
  <1> SUFFICES ASSUME ~crossed'
               PROVE  Goal
    BY DEF AgreeInv
  <1>1. ASSUME NEW a \in Moving, MoveAlias(a)
        PROVE  Goal
    <2>1. ~crossed /\ Quiet /\ UNCHANGED <<workerVars, last, missed>>
      BY <1>1, MoveCarries
    <2>2. Quiet'
      BY <2>1 DEF Quiet, Busy, workerVars
    <2>3. PICK v \in Versions :
             \A u \in Workers \ missed : Home[u] = last[2] => Agrees(u, v)
      BY <2>1 DEF AgreeInv
    <2>4. \A u \in Workers \ missed' : Home[u] = last'[2] => Agrees(u, v)'
      BY <2>1, <2>3 DEF Agrees, Coming, workerVars
    <2>5. QED
      BY <2>2, <2>4 DEF AgreeInv
  <1>2. ASSUME NEW w \in Workers, NEW body \in Addresses \cup {NoAddress}, RequestReload(w, body)
        PROVE  Goal
    <2>1. CASE handler' # handler
      <3>1. missed' = Workers /\ last'[1] \in Addresses /\ registry' = registry
        BY <1>2, <2>1, RequestCarries
      <3>2. registry'[last'[1]] \in Versions
        BY <3>1 DEF TypeOK
      <3>3. QED
        BY <3>1, <3>2 DEF AgreeInv
    <2>2. CASE handler' = handler
      BY <1>2, <2>2, RequestFails, StutterCarries DEF AgreeInv
    <2>3. QED
      BY <2>1, <2>2
  <1>3. ASSUME NEW w \in Workers, PublishReload(w)
        PROVE  Goal
    <2>1. ~crossed /\ registry' = registry
      BY <1>3, PublishMoves
    <2>2. last'[1] = last[1] /\ registry[last[1]] \in Versions
      BY <1>3, <2>1, PublishCarries DEF TypeOK
    <2>3. \A u \in Workers \ missed' : Home[u] = last'[2] => Agrees(u, registry[last[1]])'
      BY <1>3, <2>1, PublishAgrees
    <2> DEFINE v == registry[last[1]]
    <2>4. /\ ~Quiet' => v = registry'[last'[1]]
          /\ \A u \in Workers \ missed' : Home[u] = last'[2] => Agrees(u, v)'
      BY <2>1, <2>2, <2>3 DEF Agrees
    <2>5. QED
      BY <2>1, <2>2, <2>3 DEF AgreeInv, Agrees
  <1>4. ASSUME NEW w \in Workers, CalmStep(w)
        PROVE  Goal
    <2>1. ~crossed /\ registry' = registry /\ last' = last /\ (~Quiet' => ~Quiet)
      BY <1>4, CalmFrame, CalmStaysQuiet
    <2>2. PICK v \in Versions :
             /\ ~Quiet => v = registry[last[1]]
             /\ \A u \in Workers \ missed : Home[u] = last[2] => Agrees(u, v)
      BY <2>1 DEF AgreeInv
    <2>3. ASSUME NEW u \in Workers \ missed', Home[u] = last'[2]
          PROVE  Agrees(u, v)'
      BY <1>4, <2>1, <2>2, <2>3, CalmAgrees DEF CarriedInv
    <2>4. /\ ~Quiet' => v = registry'[last'[1]]
          /\ \A u \in Workers \ missed' : Home[u] = last'[2] => Agrees(u, v)'
      BY <2>1, <2>2, <2>3
    <2>5. QED
      BY <2>4 DEF AgreeInv
  <1>5. CASE UNCHANGED vars
    BY <1>5, StutterCarries DEF vars, AgreeInv
  <1> HIDE DEF Goal
  <1>6. QED
    BY <1>1, <1>2, <1>3, <1>4, <1>5 DEF Next, HandlerStep, ListenerStep, CalmStep

(* When nothing is being loaded or delivered, and reloads of two addresses *)
(* did not cross, the workers of the container where the last reload was   *)
(* requested serve one model, of the address it asked for, but for those   *)
(* that missed its message - for any number of workers and containers,     *)
(* pids shared between containers, lost messages, failed loads, dead       *)
(* listeners and replaced processes.                                       *)
THEOREM Convergence == Spec => []ReloadsConverge
  <1>1. Init => CarriedInv /\ AgreeInv
    <2> SUFFICES ASSUME Init
                 PROVE  CarriedInv /\ AgreeInv
      OBVIOUS
    <2>1. TypeOK
      BY TypeInit
    <2>2. Quiet /\ missed = Workers
      BY DEF Init, Quiet, Busy
    <2>3. CarriedInv
      <3>1. DOMAIN <<>> = {}
        OBVIOUS
      <3>2. QED
        BY <2>1, <2>2, <3>1, QuietCarriesNothing DEF CarriedInv, Carries, Quiet
    <2>4. \E v \in Versions : TRUE
      BY DEF Init
    <2>5. QED
      BY <2>2, <2>3, <2>4 DEF AgreeInv
  <1>2. TypeOK /\ AgreeInv => ReloadsConverge
    <2> SUFFICES ASSUME TypeOK, AgreeInv, Quiet, ~crossed,
                        NEW v \in Workers \ missed, NEW w \in Workers \ missed,
                        Home[v] = last[2], Home[w] = last[2]
                 PROVE  state[v] = state[w] /\ state[v].address = last[1]
      BY DEF ReloadsConverge
    <2>1. ~Coming(v) /\ ~Coming(w)
      BY QuietCarriesNothing DEF Quiet
    <2>2. QED
      <3>1. PICK n \in Versions :
               \A u \in Workers \ missed : Home[u] = last[2] => Agrees(u, n)
        BY DEF AgreeInv
      <3>2. Agrees(v, n) /\ Agrees(w, n)
        BY <3>1
      <3>3. QED
        BY <2>1, <3>2 DEF Agrees
  <1>3. QED
    BY <1>1, <1>2, CarriedStep, AgreeStep, TypeCorrect, PTL DEF Spec

=============================================================================
