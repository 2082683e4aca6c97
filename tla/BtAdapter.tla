----------------------------- MODULE BtAdapter -----------------------------
(***************************************************************************)
(* The selection of a Bluetooth adapter and the cached Powered property in *)
(* src/src/dbus/DBusBtAdapter.cpp, with the two threads that announce      *)
(* adapters to it (DBusService.cpp): the constructor, which enumerates     *)
(* BlueZ's objects, and the D-Bus thread of the root proxy.                *)
(*                                                                         *)
(* A proxy has a D-Bus thread of its own for its signals. It is shared:    *)
(* whoever drops the last reference destroys it and waits for a callback   *)
(* that is running. One critical section of _mutex is one step; everything *)
(* the code does outside the mutex is a step of its own.                   *)
(***************************************************************************)
EXTENDS Naturals, Sequences, FiniteSets

CONSTANTS
    Adapters,        \* object paths, ordered as numbers
    Proxies,         \* bound: proxy objects alive at the same time
    MaxEvents,       \* bound: plugging, unplugging and power changes
    MaxRequests      \* bound: requests of the application

NoAdapter == 0
NoProxy == 0

ASSUME BtAdapterAssumption ==
    /\ Adapters \subseteq Nat \ {NoAdapter}
    /\ NoProxy \notin Proxies
    /\ MaxEvents \in Nat
    /\ MaxRequests \in Nat

VARIABLES
    present,     \* BlueZ: the adapters there are
    power,       \* BlueZ: their Powered property
    announced,   \* InterfacesAdded and InterfacesRemoved signals on their way
    todo,        \* objects the constructor has enumerated and not yet added
    available,   \* _availableAdapterPaths
    current,     \* _currentAdapterPath
    proxy,       \* _currentAdapterProxy
    isPowered,   \* _isPowered
    proxyOf,     \* adapter of every live proxy object
    inbox,       \* Powered signals a proxy has not handled yet
    handler,     \* where the callback of each proxy is
    pc,          \* where the two announcing threads are
    target,      \* adapter each of them is selecting
    local,       \* reference each of them holds
    readValue,   \* Powered as each of them read it
    request,     \* reference a request of the application holds
    failed,      \* history: adapters whose proxy could not be created since one was selected
    misread,     \* adapters whose Powered could not be read when selected
    events, requests,
    survived,    \* history: a proxy outlived the removal of its adapter
    overtaken    \* history: an older value was stored over a newer one

bluezVars  == <<present, power, announced, events>>
proxyVars  == <<proxyOf, inbox, handler>>
threadVars == <<pc, target, local, readValue>>
appVars    == <<request, requests>>
history    == <<failed, misread, survived, overtaken>>
vars == <<bluezVars, proxyVars, threadVars, appVars, todo, available, current,
          proxy, isPowered, history>>

Threads == {"fetch", "bus"}
Pcs == {"idle", "create", "publish", "read", "recheck", "store", "drop",
        "release", "powerOff"}

Init ==
    /\ present \in SUBSET Adapters
    /\ power \in [Adapters -> BOOLEAN]
    /\ \A a \in Adapters : power[a] => a \in present
    /\ announced = <<>>
    /\ todo = present
    /\ available = {}
    /\ current = NoAdapter
    /\ proxy = NoProxy
    /\ isPowered = FALSE
    /\ proxyOf = [p \in Proxies |-> NoAdapter]
    /\ inbox = [p \in Proxies |-> <<>>]
    /\ handler = [p \in Proxies |-> "idle"]
    /\ pc = [t \in Threads |-> "idle"]
    /\ target = [t \in Threads |-> NoAdapter]
    /\ local = [t \in Threads |-> NoProxy]
    /\ readValue = [t \in Threads |-> FALSE]
    /\ request = NoProxy
    /\ failed = {}
    /\ misread = {}
    /\ events = 0
    /\ requests = 0
    /\ survived = FALSE
    /\ overtaken = FALSE

Goto(t, from, to) == pc[t] = from /\ pc' = [pc EXCEPT ![t] = to]

Least(s) == IF s = {} THEN NoAdapter ELSE CHOOSE a \in s : \A b \in s : a <= b

\* Thread t gives up its reference. When nobody else has one the proxy goes, once
\* its callback is not running; signals it has not handled are lost.
DropReference(t) ==
    /\ LET p == local[t] IN
       \/ /\ p = NoProxy \/ p \in {proxy, request} \cup {local[u] : u \in Threads \ {t}}
          /\ UNCHANGED proxyVars
       \/ /\ p # NoProxy
          /\ p \notin {proxy, request} \cup {local[u] : u \in Threads \ {t}}
          /\ handler[p] = "idle"
          /\ proxyOf' = [proxyOf EXCEPT ![p] = NoAdapter]
          /\ inbox' = [inbox EXCEPT ![p] = <<>>]
          /\ UNCHANGED handler
    /\ local' = [local EXCEPT ![t] = NoProxy]

-----------------------------------------------------------------------------
\* AddAdapter and RemoveAdapter, run by thread t.

AddAdapter(t, a) ==
    /\ available' = available \cup {a}
    /\ target' = [target EXCEPT ![t] = a]
    /\ Goto(t, "idle", IF current = NoAdapter THEN "create" ELSE "idle")
    /\ UNCHANGED <<current, proxy, local>>

\* Fault: the adapter that goes is not replaced.
RemoveWithoutReplacement(t, a) ==
    /\ available' = available \ {a}
    /\ \/ /\ current # a
          /\ UNCHANGED <<current, proxy, local, target, pc>>
       \/ /\ current = a
          /\ current' = NoAdapter
          /\ proxy' = NoProxy
          /\ local' = [local EXCEPT ![t] = proxy]
          /\ target' = [target EXCEPT ![t] = NoAdapter]
          /\ Goto(t, "idle", "release")

\* The first of the other adapters replaces the selected one.
RemoveAdapter(t, a) ==
    /\ available' = available \ {a}
    /\ \/ /\ current # a
          /\ UNCHANGED <<current, proxy, local, target, pc>>
       \/ /\ current = a
          /\ current' = NoAdapter
          /\ proxy' = NoProxy
          /\ local' = [local EXCEPT ![t] = proxy]
          /\ target' = [target EXCEPT ![t] = Least(available \ {a})]
          /\ Goto(t, "idle", "release")

\* Somebody else uses the proxy t is about to give up, or another one of the
\* same adapter.
Shared(t) ==
    \/ local[t] \in {request} \cup {local[u] : u \in Threads \ {t}}
    \/ \E p \in Proxies \ {local[t]} : proxyOf[p] = proxyOf[local[t]]

\* reset() waits for a running callback, if this is the last reference.
Release(t) ==
    /\ Goto(t, "release", "powerOff")
    /\ survived' = (survived \/ Shared(t))
    /\ DropReference(t)
    /\ UNCHANGED <<bluezVars, appVars, todo, available, current, proxy,
                   isPowered, target, readValue, failed, misread, overtaken>>

PowerOff(t) ==
    /\ Goto(t, "powerOff", IF target[t] = NoAdapter THEN "idle" ELSE "create")
    /\ isPowered' = FALSE
    /\ overtaken' = (overtaken \/ current # NoAdapter)
    /\ UNCHANGED <<bluezVars, proxyVars, appVars, todo, available, current,
                   proxy, target, local, readValue, failed, misread, survived>>

-----------------------------------------------------------------------------
\* SelectAdapter(target[t]), run by thread t.

CreateProxy(t) ==
    /\ \/ /\ Goto(t, "create", "idle")
          /\ failed' = failed \cup {target[t]}
          /\ UNCHANGED <<proxyOf, local>>
       \/ /\ Goto(t, "create", "publish")
          /\ UNCHANGED failed
          /\ \E p \in Proxies :
               /\ proxyOf[p] = NoAdapter
               /\ proxyOf' = [proxyOf EXCEPT ![p] = target[t]]
               /\ local' = [local EXCEPT ![t] = p]
    /\ UNCHANGED <<bluezVars, inbox, handler, appVars, todo, available, current,
                   proxy, isPowered, target, readValue, misread, survived,
                   overtaken>>

\* Fault: the second of two racing selections replaces the first.
PublishAnyway(t) ==
    /\ \/ /\ target[t] \notin available
          /\ Goto(t, "publish", "drop")
          /\ UNCHANGED <<current, proxy, failed>>
       \/ /\ target[t] \in available
          /\ Goto(t, "publish", "read")
          /\ current' = target[t]
          /\ proxy' = local[t]
          /\ failed' = {}
    /\ UNCHANGED <<bluezVars, proxyVars, appVars, todo, available, isPowered,
                   target, local, readValue, misread, survived, overtaken>>

\* The adapter may have gone, or the other thread been faster.
Publish(t) ==
    /\ \/ /\ target[t] \notin available \/ current # NoAdapter
          /\ Goto(t, "publish", "drop")
          /\ UNCHANGED <<current, proxy, failed>>
       \/ /\ target[t] \in available /\ current = NoAdapter
          /\ Goto(t, "publish", "read")
          /\ current' = target[t]
          /\ proxy' = local[t]
          /\ failed' = {}
    /\ UNCHANGED <<bluezVars, proxyVars, appVars, todo, available, isPowered,
                   target, local, readValue, misread, survived, overtaken>>

\* getProperty() may fail, and does for an adapter that is gone.
ReadPowered(t) ==
    /\ Goto(t, "read", "recheck")
    /\ \/ /\ readValue' = [readValue EXCEPT ![t] = power[target[t]]]
          /\ misread' = misread \ {target[t]}
       \/ /\ readValue' = [readValue EXCEPT ![t] = FALSE]
          /\ misread' = misread \cup {target[t]}
    /\ UNCHANGED <<bluezVars, proxyVars, appVars, todo, available, current,
                   proxy, isPowered, target, local, failed, survived, overtaken>>

Recheck(t) ==
    /\ Goto(t, "recheck", IF current = target[t] THEN "store" ELSE "drop")
    /\ UNCHANGED <<bluezVars, proxyVars, appVars, todo, available, current,
                   proxy, isPowered, target, local, readValue, history>>

\* Fault: what was read is not stored.
ReadInVain(t) ==
    /\ Goto(t, "store", "drop")
    /\ UNCHANGED <<bluezVars, proxyVars, appVars, todo, available, current,
                   proxy, isPowered, target, local, readValue, history>>

StorePowered(t) ==
    /\ Goto(t, "store", "drop")
    /\ isPowered' = readValue[t]
    /\ UNCHANGED <<bluezVars, proxyVars, appVars, todo, available, current,
                   proxy, target, local, readValue, history>>

\* The local reference goes with the end of SelectAdapter.
Drop(t) ==
    /\ Goto(t, "drop", "idle")
    /\ DropReference(t)
    /\ readValue' = [readValue EXCEPT ![t] = FALSE]
    /\ UNCHANGED <<bluezVars, appVars, todo, available, current, proxy,
                   isPowered, target, history>>

SelectAdapter(t) ==
    \/ CreateProxy(t) \/ Publish(t) \/ ReadPowered(t)
    \/ Recheck(t) \/ StorePowered(t) \/ Drop(t)

-----------------------------------------------------------------------------
\* Who announces adapters.

\* FetchDevices adds what it has enumerated, in order.
FetchNext ==
    /\ todo # {}
    /\ AddAdapter("fetch", Least(todo))
    /\ todo' = todo \ {Least(todo)}
    /\ UNCHANGED <<bluezVars, proxyVars, appVars, isPowered, readValue, history>>

\* HandleInterfacesAdded and HandleInterfacesRemoved.
HandleAnnounced ==
    /\ pc["bus"] = "idle"
    /\ announced # <<>>
    /\ announced' = Tail(announced)
    /\ \/ Head(announced).added /\ AddAdapter("bus", Head(announced).adapter)
       \/ ~Head(announced).added /\ RemoveAdapter("bus", Head(announced).adapter)
    /\ survived' = (survived \/
         /\ ~Head(announced).added
         /\ Head(announced).adapter # current
         /\ \E p \in Proxies : proxyOf[p] = Head(announced).adapter)
    /\ UNCHANGED <<present, power, events, proxyVars, appVars, todo, isPowered,
                   readValue, failed, misread, overtaken>>

-----------------------------------------------------------------------------
\* HandlePropertiesChanged, on the thread of proxy p.

CheckCurrent(p) ==
    /\ handler[p] = "idle"
    /\ inbox[p] # <<>>
    /\ \/ /\ current = proxyOf[p]
          /\ handler' = [handler EXCEPT ![p] = "store"]
          /\ UNCHANGED inbox
       \/ /\ current # proxyOf[p]
          /\ inbox' = [inbox EXCEPT ![p] = Tail(@)]
          /\ UNCHANGED handler
    /\ UNCHANGED <<bluezVars, proxyOf, threadVars, appVars, todo, available,
                   current, proxy, isPowered, history>>

SetPoweredValue(p) ==
    /\ handler[p] = "store"
    /\ isPowered' = Head(inbox[p])
    /\ inbox' = [inbox EXCEPT ![p] = Tail(@)]
    /\ handler' = [handler EXCEPT ![p] = "idle"]
    /\ overtaken' = (overtaken \/ p # proxy \/ \E t \in Threads :
                       pc[t] \in {"recheck", "store"} /\ target[t] = proxyOf[p])
    /\ UNCHANGED <<bluezVars, proxyOf, threadVars, appVars, todo, available,
                   current, proxy, failed, misread, survived>>

-----------------------------------------------------------------------------
\* BlueZ. A change of power is signalled to every proxy of the adapter.

Signal(a, v) ==
    inbox' = [p \in Proxies |->
                IF proxyOf[p] = a THEN Append(inbox[p], v) ELSE inbox[p]]

SetPower(a, v) ==
    /\ power' = [power EXCEPT ![a] = v]
    /\ IF power[a] # v THEN Signal(a, v) ELSE UNCHANGED inbox

Plug(a) ==
    /\ events < MaxEvents
    /\ a \notin present
    /\ present' = present \cup {a}
    /\ announced' = Append(announced, [added |-> TRUE, adapter |-> a])
    /\ events' = events + 1
    /\ UNCHANGED <<power, proxyVars, threadVars, appVars, todo, available,
                   current, proxy, isPowered, history>>

Unplug(a) ==
    /\ events < MaxEvents
    /\ a \in present
    /\ present' = present \ {a}
    /\ power' = [power EXCEPT ![a] = FALSE]
    /\ announced' = Append(announced, [added |-> FALSE, adapter |-> a])
    /\ events' = events + 1
    /\ UNCHANGED <<proxyVars, threadVars, appVars, todo, available, current,
                   proxy, isPowered, history>>

PowerFlips(a) ==
    /\ events < MaxEvents
    /\ a \in present
    /\ SetPower(a, ~power[a])
    /\ events' = events + 1
    /\ UNCHANGED <<present, announced, proxyOf, handler, threadVars, appVars,
                   todo, available, current, proxy, isPowered, history>>

-----------------------------------------------------------------------------
\* SetPoweredAsync, SetDiscoveryFilterAsync, StartDiscoveryAsync and the like, on
\* the application's thread. Without an adapter they answer with an error.

BeginRequest ==
    /\ requests < MaxRequests
    /\ request = NoProxy
    /\ request' = proxy
    /\ requests' = requests + 1
    /\ UNCHANGED <<bluezVars, proxyVars, threadVars, todo, available, current,
                   proxy, isPowered, history>>

\* The request reaches the adapter, if it is still there, and the reference goes.
EndRequest ==
    /\ request # NoProxy
    /\ LET p == request
           a == proxyOf[request]
           others == {proxy} \cup {local[t] : t \in Threads}
       IN
       /\ \/ UNCHANGED power
          \/ /\ a \in present
             /\ \E v \in BOOLEAN : power' = [power EXCEPT ![a] = v]
       /\ \/ /\ p \in others
             /\ IF power' # power THEN Signal(a, power'[a]) ELSE UNCHANGED inbox
             /\ UNCHANGED proxyOf
          \/ /\ p \notin others
             /\ handler[p] = "idle"
             /\ proxyOf' = [proxyOf EXCEPT ![p] = NoAdapter]
             /\ inbox' = [q \in Proxies |->
                            IF q = p THEN <<>>
                            ELSE IF proxyOf[q] = a /\ power' # power
                            THEN Append(inbox[q], power'[a]) ELSE inbox[q]]
    /\ request' = NoProxy
    /\ UNCHANGED <<present, announced, events, handler, threadVars, requests,
                   todo, available, current, proxy, isPowered, history>>

Thread(t) == SelectAdapter(t) \/ Release(t) \/ PowerOff(t)

Next ==
    \/ FetchNext \/ HandleAnnounced
    \/ \E t \in Threads : Thread(t)
    \/ \E p \in Proxies : CheckCurrent(p) \/ SetPoweredValue(p)
    \/ \E a \in Adapters : Plug(a) \/ Unplug(a) \/ PowerFlips(a)
    \/ BeginRequest \/ EndRequest

Spec == Init /\ [][Next]_vars

-----------------------------------------------------------------------------
\* Properties.

\* The types of the variables, which AdapterUsed includes: whoever selects has something to
\* select, and the selected adapter has its own proxy.
TypeOK ==
    /\ available \subseteq Adapters /\ todo \subseteq Adapters
    /\ announced \in Seq([added : BOOLEAN, adapter : Adapters])
    /\ current \in Adapters \cup {NoAdapter}
    /\ proxy \in Proxies \cup {NoProxy}
    /\ current # NoAdapter => proxy # NoProxy /\ proxyOf[proxy] = current
    /\ isPowered \in BOOLEAN
    /\ proxyOf \in [Proxies -> Adapters \cup {NoAdapter}]
    /\ inbox \in [Proxies -> Seq(BOOLEAN)]
    /\ handler \in [Proxies -> {"idle", "store"}]
    /\ pc \in [Threads -> Pcs]
    /\ target \in [Threads -> Adapters \cup {NoAdapter}]
    /\ \A t \in Threads :
         pc[t] \in {"create", "publish", "read", "recheck", "store"} =>
             target[t] \in Adapters
    /\ local \in [Threads -> Proxies \cup {NoProxy}]
    /\ readValue \in [Threads -> BOOLEAN]
    /\ power \in [Adapters -> BOOLEAN]
    /\ request \in Proxies \cup {NoProxy}

\* Everything announced, signalled and requested has been handled.
Rest ==
    /\ todo = {}
    /\ announced = <<>>
    /\ \A t \in Threads : pc[t] = "idle"
    /\ \A p \in Proxies : inbox[p] = <<>>
    /\ request = NoProxy

\* The first available adapter stays selected until BlueZ removes it
\* (DBusBtAdapter.h:20), whichever threads select at the same time.
FirstStaysSelected ==
    [][current # NoAdapter /\ current' # current =>
          current' = NoAdapter /\ current \notin available']_current

\* When nothing is left to do there is a selected adapter if there is one at all, unless the
\* proxy of one could not be created since the last was selected (DBusBtAdapter.cpp:32, 55, 92):
\* then nobody tries another, even if that one is removed.
AdapterUsed ==
    /\ TypeOK
    /\ Rest /\ available # {} /\ current = NoAdapter => failed # {}

\* The cached state ends up that of the selected adapter if it could be read (api-reference.md:39),
\* and powered off without one (DBusBtAdapter.cpp:62, main.cpp:52), unless a request or the other
\* selecting thread kept a removed adapter's proxy and its callback alive, a signal was stored
\* between SelectAdapter's read and its store, or the powered-off state of a removed adapter was
\* published after the other thread had selected a new one (DBusBtAdapter.cpp:65, 102, 114).
PoweredTrue ==
    /\ Rest /\ current = NoAdapter /\ ~survived => ~isPowered
    /\ Rest /\ current # NoAdapter /\ current \notin misread /\ ~survived /\ ~overtaken =>
           isPowered = power[current]
=============================================================================
