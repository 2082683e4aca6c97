------------------------------- MODULE Server -------------------------------
(***************************************************************************)
(* The WebSocket server of src/src/main.cpp: requests, answers that wait    *)
(* for BlueZ, and the broadcasts that keep every user interface up to date. *)
(*                                                                         *)
(* Threads: "loop" runs the handlers and the functions other threads have   *)
(* deferred to it; "dbus" changes connections, devices and the adapter; the *)
(* reading thread of each device changes its capabilities. Messages to a    *)
(* client keep their order, so a client's view is what it was sent last.    *)
(***************************************************************************)
EXTENDS Naturals, Sequences, FiniteSets

CONSTANTS
    Devices,       \* headphones by their addresses
    Clients,       \* user interfaces
    NoDevice,      \* no active device
    Unknown,       \* a topic a client has not been told of
    MaxEvents,     \* bound: changes of devices, capabilities and the adapter
    MaxMessages    \* bound: messages of all clients

ASSUME ServerAssumption ==
    /\ {MaxEvents, MaxMessages} \subseteq Nat
    /\ Devices \cap {NoDevice, "loop", "dbus"} = {}
    /\ "all" \notin Clients

\* What answers and broadcasts are about.
Topics == {"headphones", "info", "defaultbluetooth", "settings"}
Threads == {"loop", "dbus"} \cup Devices      \* a device names its reader

VARIABLES
    phase,         \* of the start: which events the server has subscribed to
    known,         \* _devicesMap
    connected, capability,   \* of each device
    active,        \* _activeDevice
    powered, setting,
    heard,         \* devices whose events reach the server
    deferred,      \* functions the loop will run: a topic, and a client or All
    pc, subject,   \* where a thread is, and the device it deals with
    pending,       \* requests BlueZ has not answered
    socket, view,  \* of each client
    counts,
    owed,          \* history: whether a client waits for an answer, or in vain
    unannounced    \* history: topics that have changed and nobody was told

All == "all"

world == <<known, connected, capability, active, powered, setting>>
talk == <<socket, view, owed, pending>>
vars == <<phase, world, heard, deferred, pc, subject, talk, counts, unannounced>>

Init ==
    /\ phase = "devices"
    /\ known \in SUBSET Devices
    /\ connected \in [Devices -> BOOLEAN]
    /\ \A d \in Devices \ known : ~connected[d]
    /\ capability = [d \in Devices |-> 0]
    /\ LET candidates == {d \in known : connected[d]} IN
         active \in IF candidates = {} THEN {NoDevice} ELSE candidates
    /\ powered = TRUE
    /\ setting = 0
    /\ heard = {}
    /\ deferred = <<>>
    /\ pc = [t \in Threads |-> "idle"]
    /\ subject = [t \in Threads |-> IF t \in Devices THEN t ELSE NoDevice]
    /\ pending = {}
    /\ socket = [c \in Clients |-> "none"]
    /\ view = [c \in Clients |-> [t \in Topics |-> Unknown]]
    /\ counts = [events |-> 0, messages |-> 0]
    /\ owed = [c \in Clients |-> "nothing"]
    /\ unannounced = {}

Goto(t, from, to) == pc[t] = from /\ pc' = [pc EXCEPT ![t] = to]
At(t, from) == pc[t] = from /\ UNCHANGED pc

Count(what, max) ==
    /\ counts[what] < max
    /\ counts' = [counts EXCEPT ![what] = @ + 1]

\* app.getLoop()->defer(). The text is made when the loop runs it.
Defer(topic, client) == deferred' = Append(deferred, [topic |-> topic, to |-> client])

Broadcast(topic) ==
    /\ Defer(topic, All)
    /\ unannounced' = unannounced \ {topic}

Silent(topic) ==
    /\ unannounced' = unannounced \cup {topic}
    /\ UNCHANGED deferred

Nothing == UNCHANGED <<deferred, unannounced>>

\* MakeGet...Response: the present state.
Now(topic) ==
    CASE topic = "headphones" -> {<<d, connected[d]>> : d \in known}
      [] topic = "info" ->
           IF active = NoDevice THEN <<>>
           ELSE <<active, connected[active], capability[active]>>
      [] topic = "defaultbluetooth" -> powered
      [] topic = "settings" -> setting
-----------------------------------------------------------------------------
\* Start-up: SubscribeAndHandleBroadcastEvents, and the sockets.

SubscribeDevices ==
    /\ phase = "devices" /\ phase' = "added"
    /\ heard' = known
    /\ UNCHANGED <<world, deferred, pc, subject, talk, counts, unannounced>>

\* A device added between the two was in neither.
SubscribeAdded ==
    /\ phase = "added" /\ phase' = "ready"
    /\ UNCHANGED <<world, heard, deferred, pc, subject, talk, counts, unannounced>>

\* The client is subscribed to everything and told nothing but the version.
Open(c) ==
    /\ At("loop", "idle") /\ phase = "ready"
    /\ socket[c] = "none"
    /\ socket' = [socket EXCEPT ![c] = "open"]
    /\ UNCHANGED <<phase, world, heard, deferred, subject, view, owed, pending,
                   counts, unannounced>>

\* Requests under way keep a pointer to the socket.
Close(c) ==
    /\ At("loop", "idle")
    /\ socket[c] = "open"
    /\ socket' = [socket EXCEPT ![c] = "closed"]
    /\ owed' = [owed EXCEPT ![c] = "nothing"]
    /\ view' = [view EXCEPT ![c] = [t \in Topics |-> Unknown]]
    /\ UNCHANGED <<phase, world, heard, deferred, subject, pending, counts,
                   unannounced>>
-----------------------------------------------------------------------------
\* HandleRequest, on the loop. A client has one request under way at a time.

Message(c) ==
    /\ pc["loop"] = "idle" /\ phase = "ready"
    /\ socket[c] = "open" /\ owed[c] # "answer"
    /\ Count("messages", MaxMessages)

Tell(clients, topics) ==
    view' = [c \in Clients |-> [t \in Topics |->
               IF c \in clients /\ t \in topics THEN Now(t) ELSE view[c][t]]]

\* GetDevices, GetActiveDeviceInfo, GetDefaultBluetoothAdapter, GetSetting and
\* GetAll; the empty answer to anything else tells of no topic.
Get(c, topics) ==
    /\ Message(c)
    /\ Tell({c}, topics)
    /\ UNCHANGED <<phase, world, heard, deferred, pc, subject, socket, owed, pending,
                   unannounced>>

Ask(c, topic, device) ==
    /\ owed' = [owed EXCEPT ![c] = "answer"]
    /\ pending' = pending \cup {[from |-> c, topic |-> topic, device |-> device]}
    /\ UNCHANGED <<phase, world, heard, deferred, pc, subject, socket, view,
                   unannounced>>

\* ConnectDevice and DisconnectDevice; what is so already is answered at once.
ConnectDevice(c, d, wish) ==
    /\ Message(c)
    /\ \/ /\ d \notin known \/ connected[d] = wish
          /\ Tell({c}, {"headphones"})
          /\ UNCHANGED <<phase, world, heard, deferred, pc, subject, socket, owed,
                         pending, unannounced>>
       \/ /\ d \in known /\ connected[d] # wish
          /\ Ask(c, "headphones", d)

\* Enable- and DisableDefaultBluetoothAdapter.
EnableDefaultBluetoothAdapter(c) ==
    /\ Message(c)
    /\ Ask(c, "defaultbluetooth", NoDevice)

\* The value changes in memory before it is written to the file. When that fails, or the
\* scan it turns on, the answer is empty and nobody is told.
SetSetting(c) ==
    /\ Message(c)
    /\ setting' = 1 - setting
    /\ Broadcast("settings") \/ Silent("settings")
    /\ UNCHANGED <<phase, known, connected, capability, active, powered, heard, pc,
                   subject, talk>>

\* SetFromJson of a capability that takes the value at once.
SetCapabilities(c, d) ==
    /\ Message(c)
    /\ d \in known
    /\ Goto("loop", "idle", "fire")
    /\ subject' = [subject EXCEPT !["loop"] = d]
    /\ capability' = [capability EXCEPT ![d] = 1 - @]
    /\ UNCHANGED <<phase, known, connected, active, powered, setting, heard,
                   deferred, talk, unannounced>>

\* The loop takes what was deferred first. An answer to a socket that is closed
\* uses the pointer of a socket that is gone; here it tells nobody.
RunDeferred ==
    /\ At("loop", "idle") /\ phase = "ready"
    /\ deferred # <<>>
    /\ LET f == Head(deferred) IN
       /\ Tell({c \in Clients : socket[c] = "open" /\ f.to \in {All, c}}, {f.topic})
       /\ owed' = [c \in Clients |-> IF f.to = c THEN "nothing" ELSE owed[c]]
    /\ deferred' = Tail(deferred)
    /\ UNCHANGED <<phase, world, heard, subject, socket, pending, counts, unannounced>>
-----------------------------------------------------------------------------
\* The D-Bus thread.

ConnectedChanges(d) ==
    /\ Count("events", MaxEvents)
    /\ d \in known
    /\ Goto("dbus", "idle", "select")
    /\ subject' = [subject EXCEPT !["dbus"] = d]
    /\ connected' = [connected EXCEPT ![d] = ~@]
    /\ UNCHANGED <<phase, known, capability, active, powered, setting, heard,
                   deferred, talk, unannounced>>

\* TrySelectNewActiveDevice is the device's first listener ...
Select ==
    /\ LET candidates == {d \in known : connected[d]} IN
       IF active \in candidates \/ (active = NoDevice /\ candidates = {})
       THEN Goto("dbus", "select", "tellConnected") /\ UNCHANGED active
       ELSE /\ Goto("dbus", "select", "tellActive")
            /\ IF candidates = {} THEN active' = NoDevice
               ELSE active' \in candidates
    /\ UNCHANGED <<phase, known, connected, capability, powered, setting, heard,
                   deferred, subject, talk, counts, unannounced>>

\* Fault: listeners are told of a device that is selected, not of none.
TellSelected ==
    /\ Goto("dbus", "tellActive", "tellConnected")
    /\ IF phase = "ready" /\ active # NoDevice THEN Broadcast("info") ELSE Nothing
    /\ UNCHANGED <<phase, world, heard, subject, talk, counts>>

TellActive ==
    /\ Goto("dbus", "tellActive", "tellConnected")
    /\ IF phase = "ready" THEN Broadcast("info") ELSE Nothing
    /\ UNCHANGED <<phase, world, heard, subject, talk, counts>>

\* ... and the server its second. A removed device has nothing to tell.
TellConnected ==
    /\ Goto("dbus", "tellConnected", "idle")
    /\ IF subject["dbus"] = NoDevice THEN Nothing
       ELSE IF subject["dbus"] \in heard THEN Broadcast("headphones")
       ELSE Silent("headphones")
    /\ subject' = [subject EXCEPT !["dbus"] = NoDevice]
    /\ UNCHANGED <<phase, world, heard, talk, counts>>

\* OnDeviceAdded: the device is in the map, and its reader runs, before the server hears
\* of it and subscribes. It tells nobody.
DeviceAdded(d) ==
    /\ Count("events", MaxEvents)
    /\ Goto("dbus", "idle", "added")
    /\ d \notin known
    /\ known' = known \cup {d}
    /\ subject' = [subject EXCEPT !["dbus"] = d]
    /\ \E b \in BOOLEAN : connected' = [connected EXCEPT ![d] = b]
    /\ capability' = [capability EXCEPT ![d] = 0]
    /\ Silent("headphones")
    /\ UNCHANGED <<phase, active, powered, setting, heard, talk>>

HearsAdded ==
    /\ Goto("dbus", "added", "idle")
    /\ heard' = IF phase = "ready" THEN heard \cup {subject["dbus"]} ELSE heard
    /\ subject' = [subject EXCEPT !["dbus"] = NoDevice]
    /\ UNCHANGED <<phase, world, deferred, talk, counts, unannounced>>

\* The proxy's pending calls go with it: their callbacks never run.
Drop(requests) ==
    /\ pending' = pending \ requests
    /\ owed' = [c \in Clients |->
                  IF (\E r \in requests : r.from = c) /\ owed[c] = "answer"
                  THEN "nothing any more" ELSE owed[c]]

\* OnDeviceRemoved selects another active device. (That an exception can keep it from it is in
\* Fetcher; nobody is then told of anything, and what is active stays as it is.)
DeviceRemoved(d) ==
    /\ Count("events", MaxEvents)
    /\ Goto("dbus", "idle", "select")
    /\ d \in known
    /\ known' = known \ {d}
    /\ heard' = heard \ {d}
    /\ Drop({r \in pending : r.device = d})
    /\ Silent("headphones")
    /\ UNCHANGED <<phase, connected, capability, active, powered, setting, subject,
                   socket, view>>

\* OnDefaultAdapterChangeEnabled.
Powered(on) ==
    /\ powered' = on
    /\ IF phase = "ready" THEN Broadcast("defaultbluetooth") ELSE Nothing
    /\ UNCHANGED <<phase, known, connected, capability, active, setting, heard,
                   subject>>

PoweredChanges ==
    /\ Count("events", MaxEvents)
    /\ At("dbus", "idle")
    /\ Powered(~powered)
    /\ UNCHANGED talk

\* The adapter is unplugged while it is on, and no other takes its place.
AdapterRemoved ==
    /\ Count("events", MaxEvents)
    /\ At("dbus", "idle")
    /\ powered
    /\ Drop({r \in pending : r.topic = "defaultbluetooth"})
    /\ Powered(FALSE)
    /\ UNCHANGED <<socket, view>>

\* Fault: an error of BlueZ is not an answer.
ReplyUnlessError(r) ==
    /\ At("dbus", "idle")
    /\ pending' = pending \ {r}
    /\ Defer(r.topic, r.from) \/ UNCHANGED deferred
    /\ UNCHANGED <<phase, world, heard, subject, socket, view, owed, counts,
                   unannounced>>

\* BlueZ answers, with an error perhaps, or the call times out.
Reply(r) ==
    /\ At("dbus", "idle")
    /\ pending' = pending \ {r}
    /\ Defer(r.topic, r.from)
    /\ UNCHANGED <<phase, world, heard, subject, socket, view, owed, counts,
                   unannounced>>
-----------------------------------------------------------------------------
\* Capabilities: a packet changes the value, then the listeners are called.

CapabilityChanges(d) ==
    /\ Count("events", MaxEvents)
    /\ d \in known
    /\ Goto(d, "idle", "fire")
    /\ capability' = [capability EXCEPT ![d] = 1 - @]
    /\ UNCHANGED <<phase, known, connected, active, powered, setting, heard,
                   deferred, subject, talk, unannounced>>

\* The listener of the server tells of the active device only.
Fire(t) ==
    /\ Goto(t, "fire", "idle")
    /\ IF active # subject[t] THEN Nothing
       ELSE IF active \in heard THEN Broadcast("info") ELSE Silent("info")
    /\ subject' = [subject EXCEPT !["loop"] = IF t = "loop" THEN NoDevice ELSE @]
    /\ UNCHANGED <<phase, world, heard, talk, counts>>

Loop ==
    \/ SubscribeDevices \/ SubscribeAdded \/ RunDeferred
    \/ \E c \in Clients :
         \/ Open(c) \/ Close(c) \/ SetSetting(c) \/ EnableDefaultBluetoothAdapter(c)
         \/ Get(c, {}) \/ Get(c, Topics \ {"settings"}) \/ \E t \in Topics : Get(c, {t})
         \/ \E d \in Devices :
              \/ SetCapabilities(c, d)
              \/ \E wish \in BOOLEAN : ConnectDevice(c, d, wish)

Dbus ==
    \/ Select \/ TellActive \/ TellConnected \/ HearsAdded \/ PoweredChanges \/ AdapterRemoved
    \/ \E d \in Devices : ConnectedChanges(d) \/ DeviceAdded(d) \/ DeviceRemoved(d)
    \/ \E r \in pending : Reply(r)

Next ==
    \/ Loop \/ Dbus
    \/ \E d \in Devices : CapabilityChanges(d)
    \/ \E t \in {"loop"} \cup Devices : Fire(t)

\* Threads that can go on do, and BlueZ answers or the call times out.
Fairness ==
    /\ WF_vars(SubscribeDevices) /\ WF_vars(SubscribeAdded) /\ WF_vars(RunDeferred)
    /\ WF_vars(Select) /\ WF_vars(TellActive) /\ WF_vars(TellConnected) /\ WF_vars(HearsAdded)
    /\ WF_vars(\E r \in pending : Reply(r))
    /\ \A t \in {"loop"} \cup Devices : WF_vars(Fire(t))

Spec == Init /\ [][Next]_vars
FairSpec == Spec /\ Fairness
-----------------------------------------------------------------------------
\* Properties.

\* Every variable keeps its type.
TypeOK ==
    /\ phase \in {"devices", "added", "ready"}
    /\ heard \subseteq known /\ known \subseteq Devices
    /\ connected \in [Devices -> BOOLEAN]
    /\ capability \in [Devices -> 0..1]
    /\ active \in Devices \cup {NoDevice}
    /\ \A t \in Threads :
         pc[t] \in {"idle", "fire", "select", "tellActive", "tellConnected", "added"}
    /\ subject \in [Threads -> Devices \cup {NoDevice}]
    /\ \A f \in {deferred[i] : i \in DOMAIN deferred} :
         f.topic \in Topics /\ f.to \in Clients \cup {All}
    /\ \A r \in pending : r.from \in Clients /\ r.device \in Devices \cup {NoDevice}
    /\ socket \in [Clients -> {"none", "open", "closed"}]
    /\ owed \in [Clients -> {"nothing", "answer", "nothing any more"}]
    /\ unannounced \subseteq Topics

Quiet == deferred = <<>> /\ \A t \in Threads : pc[t] = "idle"

Shows(c, topic) ==
    socket[c] = "open" /\ view[c][topic] # Unknown => view[c][topic] = Now(topic)

\* When nothing is under way every client has the present state of all it has
\* been told of (main.cpp:289), whatever the threads did in which order, but for
\* what changed without an announcement: devices added or removed, or not heard
\* of since the start, and a setting that could not be written. No client is let
\* in before the server listens to the devices.
ViewCurrent ==
    /\ TypeOK
    /\ Quiet => \A c \in Clients, t \in Topics \ unannounced : Shows(c, t)
    /\ phase # "ready" => \A c \in Clients : socket[c] = "none"

\* Who asks for a connection or the adapter gets an answer (main.cpp:111, 155),
\* unless the client leaves, or the device or the adapter goes.
Answered ==
    \A c \in Clients : owed[c] = "answer" ~> owed[c] # "answer"
=============================================================================
