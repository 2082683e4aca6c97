------------------------------ MODULE BleScan ------------------------------
(***************************************************************************)
(* The scan for BLE advertisements: DevicesInfoFetcher::UpdateBleState()   *)
(* decides whether it runs, DBusBasedBleAdvertisingService runs it.        *)
(*                                                                         *)
(*   server   changes the setting, and updates the scan                    *)
(*   dbus     adds and removes devices, and updates the scan; hears of the *)
(*            adapter's power and of the devices that advertise            *)
(*   a restart thread, detached, for every time the adapter is powered on  *)
(*            while a scan is desired: it sleeps, listens and scans        *)
(*                                                                         *)
(* Nothing but the map of subscriptions is locked. BlueZ keeps the         *)
(* program's discovery until it is told to stop or the adapter loses power *)
(* and refuses one to an adapter without power. Its answer to a call that  *)
(* starts the discovery may be another error, or never come: that leaves   *)
(* the update, or the restart, where it is.                                *)
(***************************************************************************)
EXTENDS FiniteSets, Naturals, Sequences

CONSTANTS
    Restarters,    \* restart threads there can be at a time
    MaxChanges     \* bound: what the user, BlueZ and the devices do

Updaters == {"server", "dbus"}
Threads == Updaters \cup Restarters
Ids == 1..(2 * MaxChanges + 2)          \* of subscriptions

VARIABLES
    setting,      \* the setting magicpods.animation; "other" is no boolean
    apple,        \* HasAapDevice()
    started,      \* _isBleScanStarted
    desired,      \* _scanDesired
    powered,      \* the adapter's power, as BlueZ has it
    signals,      \* its changes the D-Bus thread has not handled yet
    discovering,  \* BlueZ runs a discovery for the program
    listeners,    \* subscriptions to the event of any device added
    field,        \* _onDeviceAddedSubscriptionId, 0 for none
    entry,        \* _deviceSubscriptions has the advertising device
    heard,        \* subscriptions to that device's manufacturer data
    todo,         \* listeners the D-Bus thread has yet to call for it
    pc,           \* where each thread is
    changes,      \* history: how many there have been (bound)
    excused,      \* history: see Overlaps
    failed        \* history: a call to start the discovery has failed, and none has made
                  \* it good since

scanVars == <<started, desired, discovering, failed>>
heardVars == <<listeners, field, entry, heard>>
outside == <<setting, apple, powered, signals, changes>>
vars == <<scanVars, heardVars, outside, todo, pc, excused>>

Init ==
    /\ setting \in {"on", "off", "other"} /\ apple \in BOOLEAN /\ powered \in BOOLEAN
    /\ started = FALSE /\ desired = FALSE /\ discovering = FALSE /\ failed = FALSE
    /\ signals = <<>> /\ listeners = {} /\ field = 0 /\ entry = FALSE /\ heard = 0
    /\ todo = 0 /\ changes = 0 /\ excused = {}
    /\ pc = [t \in Threads |-> IF t = "dbus" THEN "update" ELSE "idle"]   \* start-up

Goes(t, from, to) == pc[t] = from /\ pc' = [pc EXCEPT ![t] = to]
Count == changes < MaxChanges /\ changes' = changes + 1

\* Threads whose steps are not ordered by anything: two updates, an update and a restart,
\* two restarts, or an update and the D-Bus thread's work on a device that advertises.
Busy(t) == pc[t] # "idle"
Overlaps ==
    (IF Busy("server") /\ Busy("dbus") THEN {"update"} ELSE {})
        \cup (IF \E r \in Restarters, t \in Threads : t # r /\ Busy(r) /\ Busy(t)
              THEN {"restart"} ELSE {})
Notes == excused' = excused \cup Overlaps'

(***************************************************************************)
(* DevicesInfoFetcher                                                      *)
(***************************************************************************)
OnSettingUpdate ==
    /\ Goes("server", "idle", "update") /\ Count
    /\ setting' \in {"on", "off", "other"}
    /\ Notes
    /\ UNCHANGED <<scanVars, heardVars, apple, powered, signals, todo>>

DevicesChange ==
    /\ Goes("dbus", "idle", "update") /\ Count
    /\ apple' \in BOOLEAN
    /\ Notes
    /\ UNCHANGED <<scanVars, heardVars, setting, powered, signals, todo>>

\* A setting that is no boolean leaves the scan as it is.
Readable == setting # "other"
Wanted == setting = "on" /\ apple

UpdateBleState(t) ==
    /\ Goes(t, "update", CASE Readable /\ Wanted /\ ~started -> "unsubscribe"
                           [] Readable /\ ~Wanted /\ started -> "stop"
                           [] OTHER -> "idle")
    /\ UNCHANGED <<scanVars, heardVars, outside, todo, excused>>

SetStarted(t) ==
    /\ \/ Goes(t, "started", "idle") /\ started' = TRUE
       \/ Goes(t, "stopped", "idle") /\ started' = FALSE
    /\ UNCHANGED <<desired, discovering, failed, heardVars, outside, todo, excused>>

(***************************************************************************)
(* DBusBasedBleAdvertisingService: StartListening() and StartScan().       *)
(***************************************************************************)
ListenUnsubscribes(t) ==
    /\ Goes(t, "unsubscribe", "subscribe")
    /\ listeners' = listeners \ {field}
    /\ UNCHANGED <<scanVars, field, entry, heard, outside, todo, excused>>

ListenSubscribes(t) ==
    /\ Goes(t, "subscribe", "discover")
    /\ \E id \in Ids \ (listeners \cup {field}) :
           /\ \A other \in Ids \ (listeners \cup {field}) : id <= other
           /\ field' = id /\ listeners' = listeners \cup {id}
    /\ UNCHANGED <<scanVars, entry, heard, outside, todo, excused>>

\* InProgress and NotReady are not errors: the scan is desired all the same.
StartDiscovery(t) ==
    /\ Goes(t, "discover", "desire")
    /\ discovering' = powered
    /\ failed' = (failed /\ t \in Restarters /\ ~started)
    /\ UNCHANGED <<started, desired, heardVars, outside, todo, excused>>

\* Any other error is thrown again, and caught by the restart thread, by HandleRequest() or
\* by the D-Bus connection: the rest of the call is left out, the listeners stay, and BlueZ
\* may have begun all the same, where the error is that it did not answer in time. (At start-up
\* it ends the program instead; what that leaves is what a later failure leaves.)
StartDiscoveryFails(t) ==
    /\ Goes(t, "discover", "idle")
    /\ discovering' \in {discovering, powered}
    /\ failed' = TRUE
    /\ UNCHANGED <<started, desired, heardVars, outside, todo, excused>>

\* Fault: an adapter that is not ready is taken for a failure.
ScanDesiredIfStarted(t) ==
    /\ Goes(t, "desire", IF t \in Updaters THEN "started" ELSE "idle")
    /\ desired' = discovering
    /\ UNCHANGED <<started, discovering, failed, heardVars, outside, todo, excused>>

ScanDesired(t) ==
    /\ Goes(t, "desire", IF t \in Updaters THEN "started" ELSE "idle")
    /\ desired' = TRUE
    /\ UNCHANGED <<started, discovering, failed, heardVars, outside, todo, excused>>

(***************************************************************************)
(* StopScan()                                                              *)
(***************************************************************************)
ScanUndesired(t) ==
    /\ Goes(t, "stop", "deafen")
    /\ desired' = FALSE
    /\ UNCHANGED <<started, discovering, failed, heardVars, outside, todo, excused>>

StopListening(t) ==
    /\ Goes(t, "deafen", "clear")
    /\ listeners' = listeners \ {field} /\ field' = 0
    /\ UNCHANGED <<scanVars, entry, heard, outside, todo, excused>>

StopHearing(t) ==                      \* under _deviceSubscriptionsMutex
    /\ Goes(t, "clear", "stopDiscovery")
    /\ heard' = IF entry THEN heard - 1 ELSE heard
    /\ entry' = FALSE
    /\ UNCHANGED <<scanVars, listeners, field, outside, todo, excused>>

StopDiscoveryAsync(t) ==               \* BlueZ takes calls in the order they are sent
    /\ Goes(t, "stopDiscovery", "stopped")
    /\ discovering' = FALSE /\ failed' = FALSE
    /\ UNCHANGED <<started, desired, heardVars, outside, todo, excused>>

(***************************************************************************)
(* The adapter's power.                                                    *)
(***************************************************************************)
PowerChanges ==
    /\ Count
    /\ powered' = ~powered
    /\ discovering' = (discovering /\ powered')
    /\ signals' = Append(signals, powered')
    /\ UNCHANGED <<started, desired, failed, heardVars, setting, apple, todo, pc, excused>>

\* The D-Bus thread only spawns; a restart it has begun is not taken back. Power that comes
\* back while the server's thread is told NotReady finds no scan desired yet.
OnAdapterPowerChanged ==
    /\ pc["dbus"] = "idle" /\ signals # <<>>
    /\ signals' = Tail(signals)
    /\ IF Head(signals) /\ desired
         THEN \E r \in Restarters : Goes(r, "idle", "sleep")
         ELSE UNCHANGED pc
    /\ excused' = excused \cup Overlaps' \cup (IF Busy("server") THEN {"restart"} ELSE {})
    /\ UNCHANGED <<scanVars, heardVars, setting, apple, powered, changes, todo>>

RestartWakes(r) ==
    /\ Goes(r, "sleep", "unsubscribe")
    /\ UNCHANGED <<scanVars, heardVars, outside, todo, excused>>

(***************************************************************************)
(* A device that advertises is found, and is lost again.                   *)
(***************************************************************************)
FindsDevice ==
    /\ discovering /\ listeners # {} /\ Count
    /\ Goes("dbus", "idle", "added")
    /\ todo' = Cardinality(listeners)
    /\ Notes
    /\ UNCHANGED <<scanVars, heardVars, setting, apple, powered, signals>>

\* OnDeviceAdded(): forget, emit, subscribe, and remember under the lock.
OnDeviceAdded ==
    /\ Goes("dbus", "added", "remember")
    /\ heard' = IF entry THEN heard ELSE heard + 1
    /\ entry' = FALSE
    /\ UNCHANGED <<scanVars, listeners, field, outside, todo, excused>>

Remember ==
    /\ Goes("dbus", "remember", IF todo > 1 THEN "added" ELSE "idle")
    /\ todo' = todo - 1
    /\ entry' = TRUE
    /\ UNCHANGED <<scanVars, listeners, field, heard, outside, excused>>

LosesDevice ==                         \* RemoveDeviceSubscriptions()
    /\ pc["dbus"] = "idle" /\ listeners # {} /\ entry
    /\ heard' = heard - 1
    /\ entry' = FALSE
    /\ UNCHANGED <<scanVars, listeners, field, outside, todo, pc, excused>>

Updater(t) == UpdateBleState(t) \/ SetStarted(t)
Listening(t) ==
    \/ ListenUnsubscribes(t) \/ ListenSubscribes(t)
    \/ StartDiscovery(t) \/ StartDiscoveryFails(t) \/ ScanDesired(t)
Stopping(t) ==
    \/ ScanUndesired(t) \/ StopListening(t) \/ StopHearing(t) \/ StopDiscoveryAsync(t)

Next ==
    \/ OnSettingUpdate \/ DevicesChange
    \/ \E t \in Updaters : Updater(t) \/ Stopping(t)
    \/ \E t \in Threads : Listening(t)
    \/ \E r \in Restarters : RestartWakes(r)
    \/ PowerChanges \/ OnAdapterPowerChanged
    \/ FindsDevice \/ OnDeviceAdded \/ Remember \/ LosesDevice

Spec == Init /\ [][Next]_vars

(***************************************************************************)
(* Properties                                                              *)
(***************************************************************************)
TypeOK ==
    /\ {apple, started, desired, powered, discovering, entry, failed} \subseteq BOOLEAN
    /\ setting \in {"on", "off", "other"} /\ excused \subseteq {"update", "restart"}
    /\ listeners \subseteq Ids /\ field \in Ids \cup {0} /\ heard \in 0..(MaxChanges + 1)

AtRest == signals = <<>> /\ \A t \in Threads : pc[t] = "idle"

\* Once every change has been handled the scan runs if and only if the setting is on, there
\* are Apple headphones and the adapter has power - whatever the order in which those three
\* change, and whether the adapter had power when the scan was asked for - and a device that
\* advertises is heard once while it runs and not at all when it does not. A call to start
\* the discovery that fails costs no more than the scan itself: there is still no scan nobody
\* wants, no listener twice or forgotten, and the next start or stop that succeeds makes all
\* of it good. Updates on two threads are excused, and a restart, or a signal of the
\* adapter's power, that overlaps another thread's work: nothing orders them.
ScanFollows ==
    AtRest =>
        /\ "update" \notin excused /\ Readable =>
               (started => Wanted) /\ (Wanted => started \/ failed)
        /\ excused = {} =>
               /\ desired = started
               /\ listeners = (IF field # 0 THEN {field} ELSE {})
               /\ started \/ entry => field # 0
               /\ heard = (IF entry THEN 1 ELSE 0)
               /\ ~failed => discovering = (started /\ powered) /\ (field # 0 <=> started)
=============================================================================
