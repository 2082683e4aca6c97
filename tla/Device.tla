------------------------------- MODULE Device -------------------------------
(***************************************************************************)
(* The life of a device's Bluetooth client in src/src/device/Device.cpp:   *)
(* Init(), the Connected property of BlueZ, StartClient(), the loss of a   *)
(* connection and the restarts that follow it.                             *)
(*                                                                         *)
(* The client itself is its contract (module ClientContract, which module  *)
(* Client implements). The code runs on four kinds of thread: the one that *)
(* creates the device ("init"), the D-Bus thread of the device's proxy     *)
(* ("dbus"), the reading thread of the current connection ("reader") and   *)
(* the detached threads that wait a second and retry (Restarters).         *)
(* StartClient() and RestartClientAfterConnectionLost() run on any of      *)
(* them, so their steps take the thread as parameter; every access to one  *)
(* of the atomics is a step of its own.                                    *)
(***************************************************************************)
EXTENDS ClientContract, Sequences, FiniteSets

CONSTANTS
    Restarters,    \* the detached restart threads alive at the same time (bound)
    MaxAttempts,   \* MAX_CLIENT_RECONNECT_ATTEMPTS
    MaxChanges     \* bound: changes of the Connected property

Fixed == {"init", "dbus", "reader"}
Threads == Fixed \cup Restarters

ASSUME DeviceAssumption ==
    /\ Restarters \cap Fixed = {}
    /\ IsFiniteSet(Restarters)
    /\ MaxAttempts \in Nat
    /\ MaxChanges \in Nat

VARIABLES
    bluez,       \* what BlueZ holds as Connected
    signals,     \* PropertiesChanged signals on their way to the proxy
    value,       \* _deviceInfo's _connectionStatus
    connected,   \* _connected
    readValue,   \* what Init() has read of value and not yet stored
    attempts,    \* _clientReconnectAttempts
    pending,     \* _clientRestartPending
    state,       \* _clientState
    pc,          \* where each thread is
    changes,     \* changes of the Connected property so far
    overtaken,   \* history: Init() has stored an older value over a newer one
    misstated    \* history: the last value of _clientState was wrong when stored

bluezVars  == <<bluez, signals, value, changes, overtaken>>
stateVars  == <<state, misstated>>
deviceVars == <<connected, readValue, attempts, pending, stateVars>>
vars == <<contractVars, bluezVars, deviceVars, pc>>

States == {"Disconnected", "Reconnecting", "Connected"}
Pcs == {"idle", "subscribe", "read", "write", "check",
        "branch", "reset", "stop", "stopJoin",
        "isStarted", "callStart", "connecting", "started",
        "setConnected", "setReconnecting", "setDisconnected",
        "restart", "checkAttempts", "claim", "count",
        "waiting", "recheck", "data", "reported"}

Init ==
    /\ ContractInit
    /\ bluez \in BOOLEAN
    /\ value = bluez
    /\ signals = <<>>
    /\ connected = FALSE
    /\ readValue = FALSE
    /\ attempts = 0
    /\ pending = FALSE
    /\ state = "Disconnected"
    /\ misstated = FALSE
    /\ pc = [t \in Threads |-> IF t = "init" THEN "subscribe" ELSE "idle"]
    /\ changes = 0
    /\ overtaken = FALSE

Goto(t, from, to) == pc[t] = from /\ pc' = [pc EXCEPT ![t] = to]

\* The reader comes back from its handler to fire nothing more and end.
AfterCall(t) == IF t = "reader" /\ reader = "reporting" THEN "reported" ELSE "idle"

IsStarted == phase # "down"

-----------------------------------------------------------------------------
\* Device::Init.

Subscribe ==
    /\ Goto("init", "subscribe", "read")
    /\ UNCHANGED <<contractVars, bluezVars, deviceVars>>

ReadConnected ==
    /\ Goto("init", "read", "write")
    /\ readValue' = value
    /\ UNCHANGED <<contractVars, bluezVars, connected, attempts, pending, stateVars>>

\* Stored without looking at what the D-Bus thread may have stored meanwhile.
StoreConnected ==
    /\ Goto("init", "write", "check")
    /\ connected' = readValue
    /\ readValue' = FALSE
    /\ overtaken' = (overtaken \/ readValue # value)
    /\ UNCHANGED <<contractVars, bluez, signals, value, changes, attempts,
                   pending, stateVars>>

CheckConnected ==
    /\ Goto("init", "check", IF connected THEN "isStarted" ELSE "idle")
    /\ UNCHANGED <<contractVars, bluezVars, deviceVars>>

InitStep == Subscribe \/ ReadConnected \/ StoreConnected \/ CheckConnected

-----------------------------------------------------------------------------
\* The listener of the Connected property, on the proxy's D-Bus thread.

\* The value is stored and the listener called, if Init() has subscribed it.
ConnectedChanged ==
    /\ pc["dbus"] = "idle"
    /\ signals # <<>>
    /\ signals' = Tail(signals)
    /\ value' = Head(signals)
    /\ \/ /\ pc["init"] = "subscribe"
          /\ UNCHANGED <<pc, connected>>
       \/ /\ pc["init"] # "subscribe"
          /\ connected' = Head(signals)
          /\ pc' = [pc EXCEPT !["dbus"] = "branch"]
    /\ UNCHANGED <<contractVars, bluez, changes, overtaken, readValue, attempts,
                   pending, stateVars>>

Branch ==
    /\ Goto("dbus", "branch", IF connected THEN "reset" ELSE "stop")
    /\ UNCHANGED <<contractVars, bluezVars, deviceVars>>

ResetAttempts ==
    /\ Goto("dbus", "reset", "isStarted")
    /\ attempts' = 0
    /\ UNCHANGED <<contractVars, bluezVars, connected, readValue, pending, stateVars>>

\* Fault: a disconnect leaves the client alone.
KeepClient ==
    /\ Goto("dbus", "stop", "setDisconnected")
    /\ UNCHANGED <<contractVars, bluezVars, deviceVars>>

\* Client::Stop: takes the connection down, if there is one, once no Start() is
\* running ...
StopClient ==
    /\ Goto("dbus", "stop", "stopJoin")
    /\ \/ OwnerStops
       \/ phase = "down" /\ UNCHANGED contractVars
    /\ UNCHANGED <<bluezVars, deviceVars>>

\* ... and waits for the reading thread.
JoinReader ==
    /\ Goto("dbus", "stopJoin", "setDisconnected")
    /\ reader = "absent"
    /\ UNCHANGED <<contractVars, bluezVars, deviceVars>>

DbusStep == Branch \/ ResetAttempts \/ StopClient \/ JoinReader

-----------------------------------------------------------------------------
\* Device::StartClient and TryStartClient, run by thread t.

SeeStarted(t) ==
    /\ Goto(t, "isStarted", IF IsStarted THEN "setConnected" ELSE "callStart")
    /\ UNCHANGED <<contractVars, bluezVars, deviceVars>>

\* Client::Start waits for whoever is in Start() or Stop(), and for the reader of
\* the previous connection: _lifecycleMutex is theirs until they return.
CallStart(t) ==
    /\ pc["dbus"] # "stopJoin"
    /\ \/ /\ Goto(t, "callStart", "started")
          /\ phase = "up"
          /\ UNCHANGED contractVars
       \/ /\ Goto(t, "callStart", "connecting")
          /\ BeginStart
    /\ UNCHANGED <<bluezVars, deviceVars>>

\* connect() pages a device BlueZ does not hold as connected; when it gets
\* through, BlueZ reports the device connected.
Connecting(t) ==
    /\ Goto(t, "connecting", "started")
    /\ \/ StartFails /\ UNCHANGED <<bluez, signals>>
       \/ /\ StartSucceeds
          /\ bluez' = TRUE
          /\ signals' = IF bluez THEN signals ELSE Append(signals, TRUE)
    /\ UNCHANGED <<value, changes, overtaken, deviceVars>>

\* Fault: only the second start tells the state.
StartedUntold(t) ==
    /\ Goto(t, "started", IF IsStarted THEN AfterCall(t) ELSE "restart")
    /\ UNCHANGED <<contractVars, bluezVars, deviceVars>>

SeeResult(t) ==
    /\ Goto(t, "started", IF IsStarted THEN "setConnected" ELSE "restart")
    /\ UNCHANGED <<contractVars, bluezVars, deviceVars>>

\* Whatever has happened since the thread decided on the state.
SetClientState(t) ==
    /\ \/ Goto(t, "setConnected", AfterCall(t)) /\ state' = "Connected"
       \/ Goto(t, "setDisconnected", AfterCall(t)) /\ state' = "Disconnected"
       \/ Goto(t, "setReconnecting", "checkAttempts") /\ state' = "Reconnecting"
    /\ misstated' = ((state' = "Connected") # IsStarted)
    /\ UNCHANGED <<contractVars, bluezVars, connected, readValue, attempts, pending>>

StartClient(t) == SeeStarted(t) \/ CallStart(t) \/ Connecting(t) \/ SeeResult(t)

-----------------------------------------------------------------------------
\* Device::RestartClientAfterConnectionLost, run by thread t.

\* Without a connected device nothing is restarted.
Restart(t) ==
    /\ Goto(t, "restart", IF connected THEN "setReconnecting" ELSE "setDisconnected")
    /\ UNCHANGED <<contractVars, bluezVars, deviceVars>>

CheckAttempts(t) ==
    /\ Goto(t, "checkAttempts",
            IF attempts >= MaxAttempts THEN "setDisconnected" ELSE "claim")
    /\ UNCHANGED <<contractVars, bluezVars, deviceVars>>

\* A restart that is already waiting covers this request.
ClaimRestart(t) ==
    /\ Goto(t, "claim", IF pending THEN AfterCall(t) ELSE "count")
    /\ pending' = TRUE
    /\ UNCHANGED <<contractVars, bluezVars, connected, readValue, attempts, stateVars>>

\* The attempt is counted and the detached thread created. A restarter ends with
\* this, so the new one may take its place.
SpawnRestart(t) ==
    /\ pc[t] = "count"
    /\ attempts' = attempts + 1
    /\ \E r \in Restarters :
         /\ pc[r] = "idle" \/ r = t
         /\ pc' = [pc EXCEPT ![t] = AfterCall(t), ![r] = "waiting"]
    /\ UNCHANGED <<contractVars, bluezVars, connected, readValue, pending, stateVars>>

RestartStep(t) ==
    Restart(t) \/ CheckAttempts(t) \/ ClaimRestart(t) \/ SpawnRestart(t)

\* Fault: a restart that turns out to be needless stays pending.
KeepPending(r) ==
    /\ Goto(r, "waiting", "recheck")
    /\ pending' = ~connected
    /\ UNCHANGED <<contractVars, bluezVars, connected, readValue, attempts, stateVars>>

\* The second has passed.
WaitOver(r) ==
    /\ Goto(r, "waiting", "recheck")
    /\ pending' = FALSE
    /\ UNCHANGED <<contractVars, bluezVars, connected, readValue, attempts, stateVars>>

\* Fault: the restarted client is started when the device has gone, not before.
RecheckInverted(r) ==
    /\ Goto(r, "recheck", IF connected THEN "idle" ELSE "isStarted")
    /\ UNCHANGED <<contractVars, bluezVars, deviceVars>>

Recheck(r) ==
    /\ Goto(r, "recheck", IF connected THEN "isStarted" ELSE "idle")
    /\ UNCHANGED <<contractVars, bluezVars, deviceVars>>

-----------------------------------------------------------------------------
\* The reading thread.

\* recv() returned data; the reader looks at _isStarted before it calls it again.
DataReceived ==
    /\ Goto("reader", "idle", "data")
    /\ reader = "listening"
    /\ phase = "up"
    /\ UNCHANGED <<contractVars, bluezVars, deviceVars>>

\* The link carries data, so it works.
DataHandled ==
    /\ Goto("reader", "data", "setConnected")
    /\ attempts' = 0
    /\ UNCHANGED <<contractVars, bluezVars, connected, readValue, pending, stateVars>>

ReaderEnds ==
    /\ pc["reader"] = "idle"
    /\ ReaderLeaves
    /\ UNCHANGED <<bluezVars, deviceVars, pc>>

\* Fault: the reader starts the client again itself.
RestartFromReader ==
    /\ Goto("reader", "idle", "isStarted")
    /\ ReaderStops
    /\ UNCHANGED <<bluezVars, deviceVars>>

\* Fault: a lost link is taken for a disconnect of the device.
LossDisconnects ==
    /\ Goto("reader", "idle", "restart")
    /\ ReaderStops
    /\ connected' = FALSE
    /\ UNCHANGED <<bluezVars, readValue, attempts, pending, stateVars>>

\* The link died: the connection-lost listener runs on the reader.
LinkLost ==
    /\ Goto("reader", "idle", "restart")
    /\ ReaderStops
    /\ UNCHANGED <<bluezVars, deviceVars>>

LossReported ==
    /\ Goto("reader", "reported", "idle")
    /\ ReportLoss
    /\ UNCHANGED <<bluezVars, deviceVars>>

ReaderStep == DataHandled \/ ReaderEnds \/ LossReported

-----------------------------------------------------------------------------
\* The device connects and disconnects.

ConnectedFlips ==
    /\ changes < MaxChanges
    /\ changes' = changes + 1
    /\ bluez' = ~bluez
    /\ signals' = Append(signals, ~bluez)
    /\ UNCHANGED <<contractVars, value, overtaken, deviceVars, pc>>

ThreadStep(t) == StartClient(t) \/ SetClientState(t) \/ RestartStep(t)

Next ==
    \/ InitStep \/ ConnectedChanged \/ DbusStep
    \/ DataReceived \/ LinkLost \/ ReaderStep
    \/ \E t \in Threads : ThreadStep(t)
    \/ \E r \in Restarters : WaitOver(r) \/ Recheck(r)
    \/ ConnectedFlips

Spec == Init /\ [][Next]_vars

\* Every thread that can run does; a thread waiting for Start() or Stop() of
\* another one gets its turn; the remote side owes nothing.
Fairness ==
    /\ WF_vars(InitStep) /\ WF_vars(ConnectedChanged) /\ SF_vars(DbusStep)
    /\ WF_vars(ReaderStep)
    /\ \A t \in Threads : SF_vars(ThreadStep(t))
    /\ \A r \in Restarters : WF_vars(WaitOver(r) \/ Recheck(r))

FairSpec == Spec /\ Fairness

-----------------------------------------------------------------------------
\* Properties.

\* The types of the variables, which RestartCovers includes. The check of the attempts and their increment
\* are separate, so each thread can count one attempt too many, but no more
\* (Device.cpp:123, 133).
TypeOK ==
    /\ phase \in {"down", "starting", "up"}
    /\ reader \in {"absent", "listening", "reporting"}
    /\ generation \in 0..MaxGen
    /\ lost \subseteq 1..MaxGen
    /\ {bluez, value, connected, readValue, pending} \subseteq BOOLEAN
    /\ signals \in Seq(BOOLEAN)
    /\ attempts \in 0..(MaxAttempts + Cardinality(Threads))
    /\ state \in States
    /\ {overtaken, misstated} \subseteq BOOLEAN
    /\ pc \in [Threads -> Pcs]
    /\ changes \in 0..MaxChanges

\* Nobody is in the middle of anything and no signal is on its way.
Quiet ==
    /\ \A t \in Threads : pc[t] = "idle"
    /\ signals = <<>>

\* A connected device without a client has a restart coming, unless the
\* attempts are used up (Device.cpp:112, 129).
RestartCovers ==
    /\ TypeOK
    /\ Quiet /\ ~overtaken /\ connected /\ phase = "down" => attempts >= MaxAttempts

\* When everything has come to rest the device knows what BlueZ knows, and no
\* client is left running on a disconnected device (Device.cpp:83-102), unless
\* Init() has stored an older value (Device.cpp:104).
StopWins ==
    Quiet /\ ~overtaken => connected = bluez /\ (~connected => phase = "down")

\* At rest the client state that the capabilities go by is Connected exactly
\* while there is a client, unless it was stored after the client had changed
\* again (Device.cpp:47, 174): every change of the client is followed by one of
\* the state.
StateTrue ==
    Quiet /\ ~overtaken /\ ~misstated => (state = "Connected" <=> phase = "up")

\* A restart is dropped for a disconnect only when there is one: BlueZ has
\* disconnected the device or will be heard of again (Device.cpp:115).
DropExplained ==
    \A t \in Threads : pc[t] = "restart" /\ ~connected /\ ~overtaken =>
        \/ ~bluez
        \/ signals # <<>>
        \/ pc["dbus"] # "idle"

\* A restart thread is to be created and the bound has none left.
Exhausted ==
    /\ \E t \in Threads : pc[t] = "count"
    /\ \A r \in Restarters : pc[r] # "idle"

\* The D-Bus thread always comes back for the next signal: no listener waits
\* for itself (Client.cpp:34, Device.cpp:136).
DbusReturns == pc["dbus"] # "idle" ~> pc["dbus"] = "idle" \/ Exhausted

\* A connected device gets its client, or runs out of attempts, or disconnects
\* (Device.cpp:152, 159).
ClientComesUp ==
    connected ~> phase = "up" \/ attempts >= MaxAttempts \/ ~connected \/ Exhausted
=============================================================================
