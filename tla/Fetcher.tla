------------------------------ MODULE Fetcher ------------------------------
(***************************************************************************)
(* Which devices the program knows and which one is active:                *)
(* src/src/dbus/DBusService.cpp (objects of BlueZ) together with its       *)
(* listener src/src/DevicesInfoFetcher.cpp (devices of the program).       *)
(*                                                                         *)
(* Three kinds of thread run this code without any mutex: the one that     *)
(* constructs both objects ("main"), the D-Bus thread of the root proxy    *)
(* ("bus") and the D-Bus thread of every DBusDeviceInfo. A step is one     *)
(* access to the shared maps and pointers; the data races themselves, two  *)
(* accesses at the same time, are left out.                                *)
(***************************************************************************)
EXTENDS Integers, Sequences, FiniteSets

CONSTANTS
    Devices,         \* addresses of supported headphones, ordered as numbers
    Infos,           \* bound: DBusDeviceInfo objects made in a behaviour
    MaxEvents        \* bound: events of BlueZ

NoDevice == 0
NoInfo == 0

ASSUME FetcherAssumption ==
    /\ Devices \subseteq Nat \ {NoDevice} /\ IsFiniteSet(Devices)
    /\ Infos \subseteq Nat \ {NoInfo}
    /\ MaxEvents \in Nat

VARIABLES
    present, bConnected, bPaired,  \* BlueZ: objects and their properties
    announced,   \* InterfacesAdded and InterfacesRemoved on their way
    events,
    pathOf,      \* device of every DBusDeviceInfo made so far
    listening,   \* those of them whose proxy receives signals
    inbox,       \* signals each of them has not handled
    infoConnected, infoPaired,     \* _connectionStatus, _pairedStatus
    known,       \* _knownDevices
    paired,      \* _pairedDevices
    devicesMap,  \* _devicesMap: the DBusDeviceInfo each device was made from
    connected,   \* Device::_connected
    active,      \* _activeDevice
    subscribed,  \* does the fetcher listen to OnDeviceAdded and OnDeviceRemoved?
    pc, arg,     \* where each thread is, and the object it works on
    todo,        \* what "main" still has to go through
    previous, candidate,           \* locals of TrySelectNewActiveDevice
    resume,      \* where a thread goes on after TrySelectNewActiveDevice
    unheard,     \* history: devices that changed while nobody could hear of it, or
                 \* whose removal was broken off
    overlapped   \* history: two threads were in TrySelectNewActiveDevice at a time, or
                 \* one was kept from it

bluezVars  == <<present, bConnected, bPaired, announced, events, unheard>>
infoVars   == <<pathOf, listening, inbox, infoConnected, infoPaired>>
serviceVars == <<known, paired>>
deviceVars == <<devicesMap, connected>>
selectVars == <<previous, candidate, resume, overlapped>>
vars == <<bluezVars, infoVars, serviceVars, deviceVars, active, subscribed, pc,
          arg, todo, selectVars>>

\* Threads of DBusDeviceInfo objects have the object's number.
Main == -2
Bus == -1
Threads == {Main, Bus} \cup Infos
Pcs == {"idle", "clearMaps", "create", "fill", "filling", "subscribe", "ready",
        "deviceAdded", "stopListening", "eraseDevice", "forget",
        "previous", "clear", "read", "assign"}

Init ==
    /\ present \in SUBSET Devices
    /\ bConnected \in [Devices -> BOOLEAN]
    /\ bPaired \in [Devices -> BOOLEAN]
    /\ \A d \in Devices : bConnected[d] \/ bPaired[d] => d \in present
    /\ announced = <<>>
    /\ events = 0
    /\ pathOf = [i \in Infos |-> NoDevice]
    /\ listening = {}
    /\ inbox = [i \in Infos |-> <<>>]
    /\ infoConnected = [i \in Infos |-> FALSE]
    /\ infoPaired = [i \in Infos |-> FALSE]
    /\ known = [d \in Devices |-> NoInfo]
    /\ paired = {}
    /\ devicesMap = [d \in Devices |-> NoInfo]
    /\ connected = [d \in Devices |-> FALSE]
    /\ active = NoDevice
    /\ subscribed = FALSE
    /\ pc = [t \in Threads |-> "idle"]
    /\ arg = [t \in Threads |-> NoInfo]
    /\ todo = {}
    /\ previous = [t \in Threads |-> NoDevice]
    /\ candidate = [t \in Threads |-> NoDevice]
    /\ resume = [t \in Threads |-> "idle"]
    /\ unheard = {}
    /\ overlapped = FALSE

Goto(t, from, to) == pc[t] = from /\ pc' = [pc EXCEPT ![t] = to]

Selecting(t) == pc[t] \in {"previous", "clear", "read", "assign"}

Select(t, after) ==
    /\ pc' = [pc EXCEPT ![t] = "previous"]
    /\ resume' = [resume EXCEPT ![t] = after]
    /\ overlapped' = (overlapped \/ \E u \in Threads : Selecting(u))

Snapshot(d) ==
    [added |-> TRUE, path |-> d, connected |-> bConnected[d], paired |-> bPaired[d]]

-----------------------------------------------------------------------------
\* DBusService.

NewInfo ==
    CHOOSE i \in Infos : pathOf[i] = NoDevice
                         /\ \A k \in Infos : pathOf[k] = NoDevice => i <= k

\* TryCreateDevice: a DBusDeviceInfo is made of a snapshot, its proxy listens
\* from now on, and it replaces a known one of the same path, whose proxy
\* goes unless somebody else still has it. A paired one is announced to
\* the fetcher.
CreateInfo(t, s, next) ==
    LET i == NewInfo
        old == known[s.path]
        unused == {old} \ (paired \cup {devicesMap[s.path]})
    IN
    /\ \E j \in Infos : pathOf[j] = NoDevice
    /\ \A k \in unused \cap listening : pc[k] = "idle"
    /\ pathOf' = [pathOf EXCEPT ![i] = s.path]
    /\ listening' = (listening \ unused) \cup {i}
    /\ inbox' = [k \in Infos |-> IF k \in unused THEN <<>> ELSE inbox[k]]
    /\ infoConnected' = [infoConnected EXCEPT ![i] = s.connected]
    /\ infoPaired' = [infoPaired EXCEPT ![i] = s.paired]
    /\ known' = [known EXCEPT ![s.path] = i]
    /\ paired' = IF s.paired THEN paired \cup {i} ELSE paired
    /\ arg' = [arg EXCEPT ![t] = i]
    /\ pc' = [pc EXCEPT ![t] = IF s.paired THEN "deviceAdded" ELSE next]
    /\ resume' = [resume EXCEPT ![t] = next]

\* The constructor enumerates the objects ...
FetchDevices ==
    /\ Goto(Main, "idle", "clearMaps")
    /\ todo' = {Snapshot(d) : d \in present}
    /\ UNCHANGED <<bluezVars, infoVars, serviceVars, deviceVars, active,
                   subscribed, arg, selectVars>>

\* ... and forgets what the "bus" thread has made meanwhile.
ClearMaps ==
    /\ Goto(Main, "clearMaps", "create")
    /\ \A i \in listening : pc[i] = "idle"
    /\ known' = [d \in Devices |-> NoInfo]
    /\ paired' = {}
    /\ listening' = {}
    /\ inbox' = [i \in Infos |-> <<>>]
    /\ UNCHANGED <<bluezVars, pathOf, infoConnected, infoPaired, deviceVars,
                   active, subscribed, arg, todo, selectVars>>

CreateFetched ==
    /\ pc[Main] = "create"
    /\ todo # {}
    /\ LET s == CHOOSE x \in todo : \A y \in todo : x.path <= y.path IN
       /\ CreateInfo(Main, s, "create")
       /\ todo' = todo \ {s}
    /\ UNCHANGED <<bluezVars, deviceVars, active, subscribed, previous, candidate,
                   overlapped>>

AllFetched ==
    /\ Goto(Main, "create", "fill")
    /\ todo = {}
    /\ UNCHANGED <<bluezVars, infoVars, serviceVars, deviceVars, active,
                   subscribed, arg, todo, selectVars>>

HandleInterfacesAdded ==
    /\ pc[Bus] = "idle"
    /\ announced # <<>>
    /\ Head(announced).added
    /\ CreateInfo(Bus, Head(announced), "idle")
    /\ announced' = Tail(announced)
    /\ UNCHANGED <<present, bConnected, bPaired, events, unheard, deviceVars, active,
                   subscribed, todo, previous, candidate, overlapped>>

\* TryRemoveDevice does nothing for a path it does not know.
HandleInterfacesRemoved ==
    /\ announced # <<>>
    /\ ~Head(announced).added
    /\ announced' = Tail(announced)
    /\ LET i == known[Head(announced).path] IN
       /\ Goto(Bus, "idle", IF i = NoInfo THEN "idle" ELSE "stopListening")
       /\ arg' = [arg EXCEPT ![Bus] = i]
    /\ UNCHANGED <<present, bConnected, bPaired, events, unheard, infoVars, serviceVars,
                   deviceVars, active, subscribed, todo, selectVars>>

\* Fault: the device is taken down while its callbacks go on.
KeepListening ==
    /\ Goto(Bus, "stopListening", "eraseDevice")
    /\ UNCHANGED <<bluezVars, infoVars, serviceVars, deviceVars, active,
                   subscribed, arg, todo, selectVars>>

\* The proxy's event loop is joined: a running callback ends first.
StopListening ==
    /\ Goto(Bus, "stopListening", "eraseDevice")
    /\ pc[arg[Bus]] = "idle"
    /\ listening' = listening \ {arg[Bus]}
    /\ inbox' = [inbox EXCEPT ![arg[Bus]] = <<>>]
    /\ UNCHANGED <<bluezVars, pathOf, infoConnected, infoPaired, serviceVars,
                   deviceVars, active, subscribed, arg, todo, selectVars>>

\* After the removal event. The object's proxy goes with its last reference.
Forget ==
    /\ Goto(Bus, "forget", "idle")
    /\ paired' = paired \ {arg[Bus]}
    /\ known' = [known EXCEPT ![pathOf[arg[Bus]]] = NoInfo]
    /\ UNCHANGED <<bluezVars, infoVars, deviceVars, active, subscribed, arg, todo,
                   selectVars>>

-----------------------------------------------------------------------------
\* Listeners of DevicesInfoFetcher.

\* ClearAndFillDevicesMap: a device of every paired object, the first of a path
\* wins, and then an active one.
BeginFill ==
    /\ Goto(Main, "fill", "filling")
    /\ todo' = paired
    /\ devicesMap' = [d \in Devices |-> NoInfo]
    /\ active' = NoDevice
    /\ UNCHANGED <<bluezVars, infoVars, serviceVars, connected, subscribed, arg,
                   selectVars>>

\* A new device starts with the object's Connected.
AddDevice(i) ==
    IF devicesMap[pathOf[i]] = NoInfo
    THEN /\ devicesMap' = [devicesMap EXCEPT ![pathOf[i]] = i]
         /\ connected' = [connected EXCEPT ![pathOf[i]] = infoConnected[i]]
    ELSE UNCHANGED deviceVars

Fill ==
    /\ pc[Main] = "filling"
    /\ \E i \in todo :
         /\ AddDevice(i)
         /\ todo' = todo \ {i}
    /\ UNCHANGED <<bluezVars, infoVars, serviceVars, active, subscribed, pc, arg,
                   selectVars>>

Filled ==
    /\ pc[Main] = "filling"
    /\ todo = {}
    /\ Select(Main, "subscribe")
    /\ UNCHANGED <<bluezVars, infoVars, serviceVars, deviceVars, active,
                   subscribed, arg, todo, previous, candidate>>

Subscribe ==
    /\ Goto(Main, "subscribe", "ready")
    /\ subscribed' = TRUE
    /\ UNCHANGED <<bluezVars, infoVars, serviceVars, deviceVars, active, arg,
                   todo, selectVars>>

\* OnDeviceAdded does not look for an active device.
OnDeviceAdded(t) ==
    /\ pc[t] = "deviceAdded"
    /\ IF subscribed THEN AddDevice(arg[t]) ELSE UNCHANGED deviceVars
    /\ pc' = [pc EXCEPT ![t] = resume[t]]
    /\ UNCHANGED <<bluezVars, infoVars, serviceVars, active, subscribed, arg, todo,
                   selectVars>>

\* Fault: the removed device stays the active one.
EraseWithoutSelecting ==
    /\ Goto(Bus, "eraseDevice", "forget")
    /\ devicesMap' = [devicesMap EXCEPT ![pathOf[arg[Bus]]] = NoInfo]
    /\ UNCHANGED <<bluezVars, infoVars, serviceVars, connected, active, subscribed,
                   arg, todo, selectVars>>

OnDeviceRemoved ==
    /\ pc[Bus] = "eraseDevice"
    /\ \/ /\ subscribed
          /\ devicesMap' = [devicesMap EXCEPT ![pathOf[arg[Bus]]] = NoInfo]
          /\ Select(Bus, "forget")
       \/ /\ ~subscribed
          /\ Goto(Bus, "eraseDevice", "forget")
          /\ UNCHANGED <<devicesMap, resume, overlapped>>
    /\ UNCHANGED <<bluezVars, infoVars, serviceVars, connected, active, subscribed,
                   arg, todo, previous, candidate>>

\* While there are other headphones UpdateBleState() may try to start the scan; BlueZ refuses,
\* and the exception skips all that is left: the selection, and what TryRemoveDevice does
\* after it. HandleInterfacesRemoved catches it.
RemovalBreaksOff ==
    /\ Goto(Bus, "eraseDevice", "idle")
    /\ subscribed
    /\ LET d == pathOf[arg[Bus]] IN
       /\ devicesMap[d] # NoInfo /\ \E e \in Devices \ {d} : devicesMap[e] # NoInfo
       /\ devicesMap' = [devicesMap EXCEPT ![d] = NoInfo]
       /\ unheard' = unheard \cup {d}
    /\ overlapped' = TRUE
    /\ UNCHANGED <<present, bConnected, bPaired, announced, events, infoVars, serviceVars,
                   connected, active, subscribed, arg, todo, previous, candidate, resume>>

-----------------------------------------------------------------------------
\* TrySelectNewActiveDevice, run by thread t.

RememberPrevious(t) ==
    /\ Goto(t, "previous", "clear")
    /\ previous' = [previous EXCEPT ![t] = active]
    /\ UNCHANGED <<bluezVars, infoVars, serviceVars, deviceVars, active,
                   subscribed, arg, todo, candidate, resume, overlapped>>

ClearActive(t) ==
    /\ Goto(t, "clear", "read")
    /\ active' = IF active # NoDevice
                    /\ (devicesMap[active] = NoInfo \/ ~connected[active])
                 THEN NoDevice ELSE active
    /\ UNCHANGED <<bluezVars, infoVars, serviceVars, deviceVars, subscribed, arg,
                   todo, selectVars>>

\* The last connected device of the map.
ReadConnected(t) ==
    /\ Goto(t, "read", "assign")
    /\ LET up == {d \in Devices : devicesMap[d] # NoInfo /\ connected[d]} IN
       candidate' = [candidate EXCEPT ![t] =
         IF active # NoDevice \/ up = {} THEN NoDevice
         ELSE CHOOSE d \in up : \A e \in up : e <= d]
    /\ UNCHANGED <<bluezVars, infoVars, serviceVars, deviceVars, active,
                   subscribed, arg, todo, previous, resume, overlapped>>

AssignActive(t) ==
    /\ pc[t] = "assign"
    /\ active' = IF candidate[t] # NoDevice THEN candidate[t] ELSE active
    /\ pc' = [pc EXCEPT ![t] = resume[t]]
    /\ candidate' = [candidate EXCEPT ![t] = NoDevice]
    /\ previous' = [previous EXCEPT ![t] = NoDevice]
    /\ UNCHANGED <<bluezVars, infoVars, serviceVars, deviceVars, subscribed, arg,
                   todo, resume, overlapped>>

TrySelectNewActiveDevice(t) ==
    RememberPrevious(t) \/ ClearActive(t) \/ ReadConnected(t) \/ AssignActive(t)

-----------------------------------------------------------------------------
\* The D-Bus thread of DBusDeviceInfo i.

Take(i, property) ==
    /\ i \in listening
    /\ pc[i] = "idle"
    /\ inbox[i] # <<>>
    /\ Head(inbox[i]).property = property
    /\ inbox' = [inbox EXCEPT ![i] = Tail(@)]

\* Device's listener stores a changed value, the fetcher's looks for the active
\* device again.
ConnectedChanged(i) ==
    /\ Take(i, "Connected")
    /\ LET d == pathOf[i]
           v == Head(inbox[i]).value
       IN
       /\ infoConnected' = [infoConnected EXCEPT ![i] = v]
       /\ \/ /\ devicesMap[d] = i
             /\ connected[d] # v
             /\ connected' = [connected EXCEPT ![d] = v]
             /\ Select(i, "idle")
          \/ /\ devicesMap[d] # i \/ connected[d] = v
             /\ UNCHANGED <<connected, pc, resume, overlapped>>
    /\ UNCHANGED <<bluezVars, pathOf, listening, infoPaired, serviceVars,
                   devicesMap, active, subscribed, arg, todo, previous, candidate>>

\* Fault: nobody listens to an unpaired object.
StorePairedOnly(i) ==
    /\ Take(i, "Paired")
    /\ infoPaired' = [infoPaired EXCEPT ![i] = Head(inbox[i]).value]
    /\ UNCHANGED <<bluezVars, pathOf, listening, infoConnected, serviceVars,
                   deviceVars, active, subscribed, pc, arg, todo, selectVars>>

\* The listener that TryCreateDevice leaves on an unpaired object.
PairedChanged(i) ==
    /\ Take(i, "Paired")
    /\ infoPaired' = [infoPaired EXCEPT ![i] = Head(inbox[i]).value]
    /\ LET k == known[pathOf[i]] IN
       \/ /\ k # NoInfo /\ k \notin paired
          /\ paired' = paired \cup {k}
          /\ arg' = [arg EXCEPT ![i] = k]
          /\ pc' = [pc EXCEPT ![i] = "deviceAdded"]
          /\ resume' = [resume EXCEPT ![i] = "idle"]
       \/ /\ k = NoInfo \/ k \in paired
          /\ UNCHANGED <<paired, arg, pc, resume>>
    /\ UNCHANGED <<bluezVars, pathOf, listening, infoConnected, known, deviceVars,
                   active, subscribed, todo, previous, candidate, overlapped>>

-----------------------------------------------------------------------------
\* BlueZ. A device is unpaired by removing it.

Started == pc[Main] = "ready"

\* No announcement of the device is on its way.
Settled(d) == \A k \in 1..Len(announced) : announced[k].path # d

\* While the program starts nobody, or two objects, may take notice of what
\* happens to a device. The value of a property that changes after BlueZ's snapshot of
\* the device and before there is a proxy for it is lost as well.
Event(d, inTime) ==
    /\ events < MaxEvents
    /\ events' = events + 1
    /\ unheard' = IF Started /\ inTime THEN unheard ELSE unheard \cup {d}

Signal(d, p, v) ==
    inbox' = [i \in Infos |->
        IF i \in listening /\ pathOf[i] = d
        THEN Append(inbox[i], [property |-> p, value |-> v]) ELSE inbox[i]]

Appear(d) ==
    /\ Event(d, TRUE)
    /\ d \notin present
    /\ present' = present \cup {d}
    /\ announced' = Append(announced,
         [added |-> TRUE, path |-> d, connected |-> FALSE, paired |-> FALSE])
    /\ UNCHANGED <<bConnected, bPaired, infoVars, serviceVars, deviceVars, active,
                   subscribed, pc, arg, todo, selectVars>>

Vanish(d) ==
    /\ Event(d, TRUE)
    /\ d \in present
    /\ present' = present \ {d}
    /\ bConnected' = [bConnected EXCEPT ![d] = FALSE]
    /\ bPaired' = [bPaired EXCEPT ![d] = FALSE]
    /\ announced' = Append(announced,
         [added |-> FALSE, path |-> d, connected |-> FALSE, paired |-> FALSE])
    /\ UNCHANGED <<infoVars, serviceVars, deviceVars, active, subscribed, pc, arg,
                   todo, selectVars>>

ConnectedFlips(d) ==
    /\ Event(d, Settled(d))
    /\ d \in present
    /\ bConnected' = [bConnected EXCEPT ![d] = ~@]
    /\ Signal(d, "Connected", ~bConnected[d])
    /\ UNCHANGED <<present, bPaired, announced, pathOf, listening, infoConnected,
                   infoPaired, serviceVars, deviceVars, active, subscribed, pc,
                   arg, todo, selectVars>>

Pairs(d) ==
    /\ Event(d, Settled(d))
    /\ d \in present
    /\ ~bPaired[d]
    /\ bPaired' = [bPaired EXCEPT ![d] = TRUE]
    /\ Signal(d, "Paired", TRUE)
    /\ UNCHANGED <<present, bConnected, announced, pathOf, listening, infoConnected,
                   infoPaired, serviceVars, deviceVars, active, subscribed, pc,
                   arg, todo, selectVars>>

Startup ==
    \/ FetchDevices \/ ClearMaps \/ CreateFetched \/ AllFetched
    \/ BeginFill \/ Fill \/ Filled \/ Subscribe

BusStep ==
    \/ HandleInterfacesAdded \/ HandleInterfacesRemoved \/ StopListening
    \/ OnDeviceRemoved \/ RemovalBreaksOff \/ Forget

Next ==
    \/ Startup \/ BusStep
    \/ \E t \in Threads : OnDeviceAdded(t) \/ TrySelectNewActiveDevice(t)
    \/ \E i \in Infos : ConnectedChanged(i) \/ PairedChanged(i)
    \/ \E d \in Devices : Appear(d) \/ Vanish(d) \/ ConnectedFlips(d) \/ Pairs(d)

Spec == Init /\ [][Next]_vars

-----------------------------------------------------------------------------
\* Properties.

\* The types of the variables, which PairedListed includes: every known object has a live proxy
\* unless it is being removed.
TypeOK ==
    /\ pathOf \in [Infos -> Devices \cup {NoDevice}]
    /\ listening \subseteq Infos
    /\ \A i \in listening : pathOf[i] # NoDevice
    /\ known \in [Devices -> Infos \cup {NoInfo}]
    /\ paired \subseteq Infos
    /\ devicesMap \in [Devices -> Infos \cup {NoInfo}]
    /\ connected \in [Devices -> BOOLEAN]
    /\ active \in Devices \cup {NoDevice}
    /\ subscribed \in BOOLEAN
    /\ pc \in [Threads -> Pcs]
    /\ arg \in [Threads -> Infos \cup {NoInfo}]
    /\ unheard \subseteq Devices
    /\ overlapped \in BOOLEAN
    /\ \A d \in Devices \ unheard : known[d] # NoInfo /\ known[d] \notin listening =>
         pc[Bus] \in {"eraseDevice", "forget", "previous", "clear", "read",
                       "assign"} /\ arg[Bus] = known[d]

\* Everything announced and signalled has been handled.
Rest ==
    /\ Started
    /\ announced = <<>>
    /\ \A i \in listening : inbox[i] = <<>>
    /\ \A t \in Threads \ {Main} : pc[t] = "idle"

\* The devices of the program are the paired ones of BlueZ (DevicesInfoFetcher.cpp:80, 94,
\* DBusService.cpp:163), and what the program believes of their connections is what BlueZ says
\* (DevicesInfoFetcher.cpp:194, Device.cpp:84), except for what changed while the program started
\* or while an announcement was on its way, or was not removed to the end.
PairedListed ==
    /\ TypeOK
    /\ Rest => \A d \in Devices \ unheard :
           /\ bPaired[d] <=> devicesMap[d] # NoInfo
           /\ devicesMap[d] # NoInfo => connected[d] = bConnected[d]

\* No callback of a device runs or will run once the device is being taken down
\* (DBusService.cpp:184).
TeardownQuiet ==
    subscribed /\ pc[Bus] = "eraseDevice" /\ pathOf[arg[Bus]] \notin unheard =>
        LET i == devicesMap[pathOf[arg[Bus]]] IN
        i # NoInfo => i \notin listening /\ pc[i] = "idle"

\* The active device is one of the program's, and connected (api-reference.md:296),
\* unless two threads have been choosing it at the same time, or a failed start of the
\* scan has kept one from it.
ActiveTrue ==
    Rest /\ ~overlapped /\ active # NoDevice =>
        devicesMap[active] # NoInfo /\ connected[active]
=============================================================================
