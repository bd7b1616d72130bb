----------------------------- MODULE ReloadSync -----------------------------
(***************************************************************************)
(* Model reloads of the gunicorn workers, synchronised over one Redis      *)
(* channel.                                                                *)
(*                                                                         *)
(* A worker has two threads that load models: the event loop, which runs   *)
(* POST /model/reload, and the listener of the channel.  A request is      *)
(* served without an await, so a worker serves one at a time, but its      *)
(* listener runs beside it.  A step is one load from the registry, one     *)
(* assignment of model_state or one message.                               *)
(***************************************************************************)
EXTENDS Integers, Sequences

CONSTANTS
    Workers,
    Home,            \* worker -> its container
    Id,              \* worker -> its worker_id, the pid inside the container
    Configured,      \* container -> SERVING_MODEL_VERSION
    Addresses,       \* model_version strings: aliases, `latest`, numbers
    NoAddress,       \* the empty string: not given, not loaded
    Moving,          \* the addresses that may come to name another version
    Versions,
    FaultyCalls,     \* what may go wrong: a subset of Calls
    MaxReloads,      \* bounds: reload requests,
    MaxMoves,        \*   moves of an alias,
    MaxFaults        \*   and faults

(* load: the registry fails; publish: Redis fails, with the message        *)
(* delivered or not; listener: its connection breaks; restart: the worker  *)
(* process is replaced; startLoad, ping: the registry or Redis fails when  *)
(* a worker starts.                                                        *)
Calls == {"load", "publish", "listener", "restart", "startLoad", "ping"}

ASSUME WorkerAssumption ==
    \A v, w \in Workers : Home[v] = Home[w] /\ Id[v] = Id[w] => v = w

ASSUME AddressAssumption ==
    /\ NoAddress \notin Addresses
    /\ Moving \subseteq Addresses
    /\ \A w \in Workers : Configured[Home[w]] \in Addresses
    /\ Versions \subseteq Nat \ {0}

ASSUME BoundAssumption ==
    /\ FaultyCalls \subseteq Calls
    /\ MaxReloads \in Nat
    /\ MaxMoves \in Nat
    /\ MaxFaults \in Nat

VARIABLES
    registry,    \* address -> the version it names
    state,       \* worker -> its model_state: address and version
    handler,     \* worker -> where its reload request is
    loaded,      \* worker -> what its reload request has loaded
    listener,    \* worker -> the state of its listener thread
    inbox,       \* worker -> messages its subscription has received
    fetched,     \* worker -> what its listener has loaded, as a set
    last,        \* history: the address of the last reload, and its container
    crossed,     \* history: did reloads of two addresses, or a reload and
                 \* a move of an alias, overlap since the channel was quiet?
    missed,      \* history: workers the last reload has not been sent to, or
                 \* that have lost it
    reloads, moves, faults

workerVars == <<state, handler, loaded, listener, inbox, fetched>>
historyVars == <<last, crossed, missed>>
vars == <<registry, workerVars, historyVars, reloads, moves, faults>>

-----------------------------------------------------------------------------
Models == [address : Addresses, version : Versions]
NoModel == [address |-> NoAddress, version |-> 0]
NoReload == <<NoAddress, NoAddress>>

Fault(call) ==
    /\ call \in FaultyCalls
    /\ faults < MaxFaults
    /\ faults' = faults + 1

NoFault == UNCHANGED faults

(* load_model_from_registry: the address is resolved when it is loaded.    *)
Load(a) == [address |-> a, version |-> registry[a]]

Busy(w) == handler[w] # "idle" \/ inbox[w] # <<>> \/ fetched[w] # {}
Quiet == \A w \in Workers : ~Busy(w)

(* The thread exists: it is subscribed, or about to be.                    *)
IsActive(w) == listener[w] \in {"starting", "subscribed"}
Subscribers == {w \in Workers : listener[w] = "subscribed"}

-----------------------------------------------------------------------------
(* All workers are up, with what their containers are configured to load;  *)
(* a model has just been promoted, so every address names it.              *)
Init ==
    /\ \E v \in Versions : registry = [a \in Addresses |-> v]
    /\ state = [w \in Workers |-> Load(Configured[Home[w]])]
    /\ handler = [w \in Workers |-> "idle"]
    /\ loaded = [w \in Workers |-> NoModel]
    /\ listener = [w \in Workers |-> "subscribed"]
    /\ inbox = [w \in Workers |-> <<>>]
    /\ fetched = [w \in Workers |-> {}]
    /\ last = NoReload
    /\ crossed = FALSE
    /\ missed = Workers
    /\ reloads = 0
    /\ moves = 0
    /\ faults = 0

(* A promotion, a rollback or a registration elsewhere in the platform.    *)
MoveAlias(a) ==
    /\ moves < MaxMoves
    /\ moves' = moves + 1
    /\ \E v \in Versions \ {registry[a]} : registry' = [registry EXCEPT ![a] = v]
    /\ crossed' = (crossed \/ ~Quiet)
    /\ UNCHANGED <<workerVars, last, missed, reloads, faults>>

-----------------------------------------------------------------------------
(* The address a request asks for: its own, or that of the current model,  *)
(* or the configured one.                                                  *)
Target(w, body) ==
    IF body # NoAddress THEN body
    ELSE IF state[w].address # NoAddress THEN state[w].address
    ELSE Configured[Home[w]]

(* model_reload up to its assignment; when the load fails the answer is an *)
(* error and nothing changes.                                              *)
RequestReload(w, body) ==
    /\ handler[w] = "idle"
    /\ reloads < MaxReloads
    /\ reloads' = reloads + 1
    /\ \/ /\ loaded' = [loaded EXCEPT ![w] = Load(Target(w, body))]
          /\ handler' = [handler EXCEPT ![w] = "assign"]
          /\ last' = <<Target(w, body), Home[w]>>
          /\ crossed' = (~Quiet /\ (crossed \/ last[1] # Target(w, body)))
          /\ missed' = Workers
          /\ NoFault
       \/ /\ Fault("load")
          /\ UNCHANGED <<loaded, handler, historyVars>>
    /\ UNCHANGED <<registry, state, listener, inbox, fetched, moves>>

AssignReload(w) ==
    /\ handler[w] = "assign"
    /\ state' = [state EXCEPT ![w] = loaded[w]]
    /\ handler' = [handler EXCEPT ![w] = "publish"]
    /\ UNCHANGED <<registry, loaded, listener, inbox, fetched, historyVars,
                   reloads, moves, faults>>

(* Mutant: the message repeats the request instead of the address it was   *)
(* resolved to, so the others fall back on what they are configured with.  *)
MessageOfRequest(w) == [address |-> Configured[Home[w]], source |-> Id[w]]

Message(w) == [address |-> loaded[w].address, source |-> Id[w]]

(* Redis appends a message to every subscription, the publisher's own      *)
(* included.                                                               *)
Deliver(w) ==
    /\ inbox' = [v \in Workers |->
                   IF v \in Subscribers THEN Append(inbox[v], Message(w))
                   ELSE inbox[v]]
    /\ missed' = Workers \ (Subscribers \cup {w})

NotDelivered(w) ==
    /\ missed' = Workers \ {w}
    /\ UNCHANGED inbox

(* publish_reload, only with a live listener, swallows its errors.         *)
PublishReload(w) ==
    /\ handler[w] = "publish"
    /\ handler' = [handler EXCEPT ![w] = "idle"]
    /\ loaded' = [loaded EXCEPT ![w] = NoModel]
    /\ \/ IsActive(w) /\ Deliver(w) /\ NoFault
       \/ ~IsActive(w) /\ NotDelivered(w) /\ NoFault
       \/ IsActive(w) /\ (Deliver(w) \/ NotDelivered(w)) /\ Fault("publish")
    /\ last' = <<loaded[w].address, Home[w]>>
    /\ UNCHANGED <<registry, state, listener, fetched, crossed, reloads, moves>>

-----------------------------------------------------------------------------
(* Mutant: a worker leaves its own message to be read again.               *)
ReceiveNotOwn(w) ==
    /\ inbox[w] # <<>>
    /\ fetched[w] = {}
    /\ Head(inbox[w]).source # Id[w]
    /\ inbox' = [inbox EXCEPT ![w] = Tail(@)]
    /\ fetched' = [fetched EXCEPT ![w] = {Load(Head(inbox[w]).address)}]
    /\ UNCHANGED <<registry, state, handler, loaded, listener, historyVars,
                   reloads, moves, faults>>

(* The listener takes one message at a time: it skips those that carry its *)
(* own id, loads the address of the others, and stays with its model when  *)
(* that fails.                                                             *)
Receive(w) ==
    /\ inbox[w] # <<>>
    /\ fetched[w] = {}
    /\ inbox' = [inbox EXCEPT ![w] = Tail(@)]
    /\ LET m == Head(inbox[w])
       IN  \/ m.source = Id[w] /\ NoFault /\ UNCHANGED <<fetched, missed>>
           \/ /\ m.source # Id[w]
              /\ fetched' = [fetched EXCEPT ![w] = {Load(m.address)}]
              /\ NoFault
              /\ UNCHANGED missed
           \/ /\ m.source # Id[w]
              /\ Fault("load")
              /\ missed' = missed \cup {w}
              /\ UNCHANGED fetched
    /\ UNCHANGED <<registry, state, handler, loaded, listener, last, crossed,
                   reloads, moves>>

AssignRemote(w) ==
    /\ fetched[w] # {}
    /\ \E model \in fetched[w] : state' = [state EXCEPT ![w] = model]
    /\ fetched' = [fetched EXCEPT ![w] = {}]
    /\ UNCHANGED <<registry, handler, loaded, listener, inbox, historyVars,
                   reloads, moves, faults>>

(* Mutant: a new listener would find what the old one left.                *)
LoseListenerOnly(w) ==
    /\ IsActive(w)
    /\ fetched[w] = {}
    /\ Fault("listener")
    /\ listener' = [listener EXCEPT ![w] = "dead"]
    /\ UNCHANGED <<registry, state, handler, loaded, inbox, fetched,
                   historyVars, reloads, moves>>

(* A connection error ends the thread until the process is replaced; what  *)
(* it had not read is lost.                                                *)
LoseListener(w) ==
    /\ IsActive(w)
    /\ fetched[w] = {}
    /\ Fault("listener")
    /\ listener' = [listener EXCEPT ![w] = "dead"]
    /\ inbox' = [inbox EXCEPT ![w] = <<>>]
    /\ missed' = IF inbox[w] = <<>> THEN missed ELSE missed \cup {w}
    /\ UNCHANGED <<registry, state, handler, loaded, fetched, last, crossed,
                   reloads, moves>>

-----------------------------------------------------------------------------
(* gunicorn replaces a worker process: the new one loads what it is        *)
(* configured with, or serves without a model, and starts a listener if    *)
(* Redis answers.                                                          *)
Restart(w) ==
    /\ faults < MaxFaults
    /\ "restart" \in FaultyCalls
    /\ faults' = faults + 1
    /\ \/ state' = [state EXCEPT ![w] = Load(Configured[Home[w]])]
       \/ "startLoad" \in FaultyCalls /\ state' = [state EXCEPT ![w] = NoModel]
    /\ \/ listener' = [listener EXCEPT ![w] = "starting"]
       \/ "ping" \in FaultyCalls /\ listener' = [listener EXCEPT ![w] = "dead"]
    /\ handler' = [handler EXCEPT ![w] = "idle"]
    /\ loaded' = [loaded EXCEPT ![w] = NoModel]
    /\ inbox' = [inbox EXCEPT ![w] = <<>>]
    /\ fetched' = [fetched EXCEPT ![w] = {}]
    /\ missed' = missed \cup {w}
    /\ UNCHANGED <<registry, last, crossed, reloads, moves>>

(* The new thread subscribes, while requests are already served.           *)
Subscribe(w) ==
    /\ listener[w] = "starting"
    /\ listener' = [listener EXCEPT ![w] = "subscribed"]
    /\ UNCHANGED <<registry, state, handler, loaded, inbox, fetched,
                   historyVars, reloads, moves, faults>>

-----------------------------------------------------------------------------
HandlerStep(w) == AssignReload(w) \/ PublishReload(w)
ListenerStep(w) == Receive(w) \/ AssignRemote(w) \/ Subscribe(w)

Next ==
    \/ \E a \in Moving : MoveAlias(a)
    \/ \E w \in Workers :
          \/ \E body \in Addresses \cup {NoAddress} : RequestReload(w, body)
          \/ HandlerStep(w)
          \/ ListenerStep(w)
          \/ LoseListener(w)
          \/ Restart(w)

Spec == Init /\ [][Next]_vars

(* Both threads of a worker go on with what they have begun: a load        *)
(* returns or raises.                                                      *)
FairSpec ==
    Spec /\ \A w \in Workers : WF_vars(HandlerStep(w)) /\ WF_vars(ListenerStep(w))

-----------------------------------------------------------------------------
(* The type invariant; only a subscription holds messages, and a model is  *)
(* loaded for as long as its request needs it.                             *)
TypeOK ==
    /\ registry \in [Addresses -> Versions]
    /\ state \in [Workers -> Models \cup {NoModel}]
    /\ handler \in [Workers -> {"idle", "assign", "publish"}]
    /\ loaded \in [Workers -> Models \cup {NoModel}]
    /\ \A w \in Workers : handler[w] = "idle" <=> loaded[w] = NoModel
    /\ listener \in [Workers -> {"starting", "subscribed", "dead"}]
    /\ inbox \in [Workers -> Seq([address : Addresses,
                                  source : {Id[w] : w \in Workers}])]
    /\ fetched \in [Workers -> SUBSET Models]
    /\ \A w \in Workers :
          listener[w] # "subscribed" => inbox[w] = <<>> /\ fetched[w] = {}
    /\ last \in (Addresses \X {Home[w] : w \in Workers}) \cup {NoReload}
    /\ crossed \in BOOLEAN
    /\ missed \subseteq Workers
    /\ reloads \in 0..MaxReloads
    /\ moves \in 0..MaxMoves
    /\ faults \in 0..MaxFaults

(* "All workers subscribe to this channel and reload when they receive a   *)
(* message": when nothing is being loaded or delivered, the workers of the *)
(* container where the last reload was requested, but for those that       *)
(* missed its message, serve one and the same model, of the address it     *)
(* asked for - even if requests for that address crossed, loads failed or  *)
(* other workers died.  It is not so when reloads of two addresses cross,  *)
(* or an alias moves meanwhile.                                            *)
ReloadsConverge ==
    Quiet /\ ~crossed =>
        \A v, w \in {u \in Workers \ missed : Home[u] = last[2]} :
            state[v] = state[w] /\ state[v].address = last[1]

(* Every reload ends and every message is used up, whatever fails and      *)
(* whatever crosses: reloads do not answer each other for ever.            *)
ReloadsSettle == ~Quiet ~> Quiet

=============================================================================
