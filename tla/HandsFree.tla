----------------------------- MODULE HandsFree -----------------------------
(***************************************************************************)
(* The battery of hands-free headphones: BlueZ's object of the device,     *)
(* DBusDeviceInfo's copy of it and BhfBatteryCapability, which shows it.   *)
(*                                                                         *)
(*   creator  makes the capability, which asks the copy, and then lets the *)
(*            device listen (Device::Init())                               *)
(*   device   hears of changes of the object's properties                  *)
(*   service  hears of its interfaces: the battery's comes with the first  *)
(*            level after every connection                                 *)
(*                                                                         *)
(* BlueZ sends one stream of signals; each thread has its own part of it.  *)
(***************************************************************************)
EXTENDS Integers, Sequences

CONSTANTS
    Percentages,    \* levels the headphones report
    MaxSignals      \* bound: what the headphones do

Unknown == -1        \* no level: 0 is one
Initial == 100      \* what _handsFreeBatteryStatus is before a report

VARIABLES
    connected, percentage,     \* BlueZ's; Unknown without the battery's interface
    toDevice, toService,       \* signals on their way
    infoConnected, infoLevel,  \* _connectionStatus, _handsFreeBatteryStatus
    pc,                        \* where each thread is
    carried,                   \* the level each thread hands to the capability
    battery,                   \* the level in DeviceBattery, Unknown if not available
    isAvailable,
    signals,                   \* history: how many there have been (bound)
    excused                    \* history: see BatteryTrue

bluezVars == <<connected, percentage, toDevice, toService, signals>>
infoVars == <<infoConnected, infoLevel>>
vars == <<bluezVars, infoVars, pc, carried, battery, isAvailable, excused>>

Threads == {"creator", "device", "service"}

Init ==
    /\ connected \in BOOLEAN
    /\ percentage \in {Unknown} \cup (IF connected THEN Percentages ELSE {})
    /\ toDevice = <<>> /\ toService = <<>>
    /\ infoConnected = connected
    /\ infoLevel = IF percentage = Unknown THEN Initial ELSE percentage
    /\ pc = [t \in Threads |-> IF t = "creator" THEN "ask" ELSE "idle"]
    /\ carried = [t \in Threads |-> Unknown]
    /\ battery = Unknown /\ isAvailable = FALSE
    /\ signals = 0 /\ excused = FALSE

Goes(t, from, to) == pc[t] = from /\ pc' = [pc EXCEPT ![t] = to]
Count == signals < MaxSignals /\ signals' = signals + 1

(***************************************************************************)
(* BlueZ                                                                   *)
(***************************************************************************)
Connects ==
    /\ ~connected /\ Count
    /\ connected' = TRUE
    /\ toDevice' = Append(toDevice, [is |-> "connected", level |-> Unknown])
    /\ UNCHANGED <<percentage, toService, infoVars, pc, carried, battery, isAvailable, excused>>

Disconnects ==
    /\ connected /\ Count
    /\ connected' = FALSE /\ percentage' = Unknown
    /\ toDevice' = Append(toDevice, [is |-> "disconnected", level |-> Unknown])
    /\ UNCHANGED <<toService, infoVars, pc, carried, battery, isAvailable, excused>>

Reports ==
    /\ connected /\ Count
    /\ \E level \in Percentages \ {percentage} :
           /\ percentage' = level
           /\ IF percentage = Unknown
                THEN toService' = Append(toService, level) /\ UNCHANGED toDevice
                ELSE /\ toDevice' = Append(toDevice, [is |-> "level", level |-> level])
                     /\ UNCHANGED toService
    /\ UNCHANGED <<connected, infoVars, pc, carried, battery, isAvailable, excused>>

(***************************************************************************)
(* The program.                                                            *)
(***************************************************************************)
\* Nothing orders the two streams, nor a signal and the making of the capability.
Unordered(t) ==
    \/ pc["creator"] # "done"
    \/ t = "device" /\ (toService # <<>> \/ pc["service"] # "idle")
    \/ t = "service" /\ (toDevice # <<>> \/ pc["device"] # "idle")

\* SetValue() stores, then fires; before the device listens nobody hears.
PropertiesChanged ==
    /\ toDevice # <<>> /\ toDevice' = Tail(toDevice)
    /\ LET signal == Head(toDevice)
           next == CASE pc["creator"] = "done" /\ signal.is = "level" -> "update"
                     [] pc["creator"] = "done" /\ signal.is = "disconnected" -> "clear"
                     [] OTHER -> "idle"
       IN  /\ Goes("device", "idle", next)
           /\ infoConnected' = IF signal.is = "level" THEN infoConnected
                               ELSE signal.is = "connected"
           /\ infoLevel' = IF signal.is = "level" THEN signal.level ELSE infoLevel
           /\ carried' = [carried EXCEPT !["device"] = signal.level]
    /\ excused' = (excused \/ Unordered("device"))
    /\ UNCHANGED <<connected, percentage, toService, signals, battery, isAvailable>>

InterfaceAdded ==
    /\ toService # <<>> /\ toService' = Tail(toService)
    /\ Goes("service", "idle", IF pc["creator"] = "done" THEN "update" ELSE "idle")
    /\ infoLevel' = Head(toService)
    /\ carried' = [carried EXCEPT !["service"] = Head(toService)]
    /\ excused' = (excused \/ Unordered("service"))
    /\ UNCHANGED <<connected, percentage, toDevice, signals, infoConnected, battery, isAvailable>>

Asks ==
    /\ Goes("creator", "ask", IF infoConnected THEN "update" ELSE "listen")
    /\ carried' = [carried EXCEPT !["creator"] = infoLevel]
    /\ UNCHANGED <<bluezVars, infoVars, battery, isAvailable, excused>>

Listens ==
    /\ Goes("creator", "listen", "done")
    /\ UNCHANGED <<bluezVars, infoVars, carried, battery, isAvailable, excused>>

After(t) == IF t = "creator" THEN "listen" ELSE "idle"

\* A level that is what it was is not told again.
UpdateSingleBattery(t) ==
    /\ Goes(t, "update", IF battery # carried[t] THEN "show" ELSE After(t))
    /\ battery' = carried[t]
    /\ UNCHANGED <<bluezVars, infoVars, carried, isAvailable, excused>>

BatteryChanged(t) ==
    /\ Goes(t, "show", After(t))
    /\ isAvailable' = TRUE
    /\ UNCHANGED <<bluezVars, infoVars, carried, battery, excused>>

\* Fault: the battery outlives the connection.
ResetKeepsBattery ==
    /\ Goes("device", "clear", "hide")
    /\ UNCHANGED <<bluezVars, infoVars, carried, battery, isAvailable, excused>>

ClearBattery ==
    /\ Goes("device", "clear", "hide")
    /\ battery' = Unknown
    /\ UNCHANGED <<bluezVars, infoVars, carried, isAvailable, excused>>

Reset ==
    /\ Goes("device", "hide", "idle")
    /\ isAvailable' = FALSE
    /\ UNCHANGED <<bluezVars, infoVars, carried, battery, excused>>

Next ==
    \/ Connects \/ Disconnects \/ Reports
    \/ PropertiesChanged \/ InterfaceAdded
    \/ Asks \/ Listens
    \/ \E t \in Threads : UpdateSingleBattery(t) \/ BatteryChanged(t)
    \/ ClearBattery \/ Reset

Spec == Init /\ [][Next]_vars

(***************************************************************************)
(* Properties                                                              *)
(***************************************************************************)
TypeOK ==
    /\ {connected, infoConnected, isAvailable, excused} \subseteq BOOLEAN
    /\ {percentage, battery} \subseteq Percentages \cup {Unknown, Initial}
    /\ infoLevel \in Percentages \cup {Initial}

AtRest ==
    /\ toDevice = <<>> /\ toService = <<>>
    /\ pc = [t \in Threads |-> IF t = "creator" THEN "done" ELSE "idle"]

\* Once every signal has been handled, the level clients are shown is the headphones' last
\* one, from the first they report after each connection, be it the one they had before the
\* connection was lost; and none is shown while they are not connected, nor before they
\* report one - except that those connected when the program starts are shown as full
\* until they do. Excused is what the two streams of signals, or a signal and the making of
\* the capability, do to each other.
BatteryTrue ==
    (AtRest /\ ~excused) =>
        /\ isAvailable => connected /\ battery = infoLevel
        /\ percentage # Unknown => isAvailable /\ battery = percentage
        /\ isAvailable /\ percentage = Unknown => battery = Initial
=============================================================================
