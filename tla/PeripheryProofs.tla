-------------------------- MODULE PeripheryProofs --------------------------
(***************************************************************************)
(* Proofs about the parts that share no state with the others: the scan    *)
(* for advertisements, the animation, the settings, the battery of         *)
(* hands-free headphones, preferences, and what pressing and holding does, *)
(* for every value of the constants. Each part has an inductive invariant  *)
(* whose conjuncts are proved one step lemma each, and the theorems are    *)
(* those of MCPeriphery's properties.                                      *)
(***************************************************************************)
EXTENDS MCPeriphery, AapPressAndHold, SequenceTheorems, TLAPS

(***************************************************************************)
(* Streams                                                                 *)
(***************************************************************************)
Last(stream) == stream[Len(stream)]

\* What a sequence is with one more at its end, and without its first.
LEMMA Appended ==
    ASSUME NEW S, NEW stream \in Seq(S), NEW e \in S
    PROVE  /\ Append(stream, e) \in Seq(S) /\ Append(stream, e) # <<>>
           /\ Len(Append(stream, e)) = Len(stream) + 1 /\ Last(Append(stream, e)) = e
           /\ Append(stream, e)[Len(stream) + 1] = e
           /\ \A i \in 1..Len(stream) : Append(stream, e)[i] = stream[i]
           /\ Len(stream) \in Nat /\ (stream = <<>> <=> Len(stream) = 0)
BY DEF Last

LEMMA Taken ==
    ASSUME NEW S, NEW stream \in Seq(S), stream # <<>>
    PROVE  /\ Tail(stream) \in Seq(S) /\ Head(stream) = stream[1] /\ Head(stream) \in S
           /\ Len(stream) \in Nat /\ Len(stream) > 0 /\ Len(Tail(stream)) = Len(stream) - 1
           /\ \A i \in 1..(Len(stream) - 1) : Tail(stream)[i] = stream[i + 1]
           /\ Tail(stream) = <<>> <=> Len(stream) = 1
           /\ Tail(stream) # <<>> => Last(Tail(stream)) = Last(stream)
           /\ Len(stream) = 1 => Last(stream) = stream[1]
<1>1. /\ Tail(stream) \in Seq(S) /\ Head(stream) = stream[1] /\ Head(stream) \in S
      /\ Len(stream) \in Nat /\ Len(stream) > 0 /\ Len(Tail(stream)) = Len(stream) - 1
      /\ \A i \in 1..(Len(stream) - 1) : Tail(stream)[i] = stream[i + 1]
  OBVIOUS
<1>2. Tail(stream) = <<>> <=> Len(stream) = 1
  <2>1. \A q \in Seq(S) : q = <<>> <=> Len(q) = 0
    OBVIOUS
  <2>2. Tail(stream) \in Seq(S)
    BY <1>1
  <2>3. Tail(stream) = <<>> <=> Len(Tail(stream)) = 0
    BY <2>1, <2>2, Zenon
  <2> QED
    BY <1>1, <2>3
<1>3. Tail(stream) # <<>> => Last(Tail(stream)) = Last(stream)
  BY <1>1, <1>2 DEF Last
<1> QED
  BY <1>1, <1>2, <1>3 DEF Last

\* A behaviour of MCPeriphery is one of each of its parts, all but one of which rest.
LEMMA PartsOfPeriphery ==
    PartSpec => /\ Scan!Spec /\ Animation!Spec /\ Settings!Spec /\ HandsFree!Spec
                /\ Preference!Spec
<1> DEFINE all == <<part, vars, scanVars, animationVars, settingsVars, batteryVars,
                    preferenceVars>>
<1>1. PartInit => /\ Scan!Init /\ Animation!Init /\ Settings!Init /\ HandsFree!Init
                  /\ Preference!Init
  BY DEF PartInit
<1>2. [PartNext]_all => [Scan!Next]_Scan!vars
  <2>1. scanVars' = scanVars => UNCHANGED Scan!vars
    BY DEF scanVars, Scan!vars, Scan!scanVars, Scan!heardVars, Scan!outside
  <2> SUFFICES ASSUME PartNext, scanVars' # scanVars PROVE Scan!Next
    BY <2>1
  <2>2. ScanNext
    BY DEF PartNext, DevicesNext, AnimationNext, SettingsNext, BatteryNext, PreferenceNext,
           InDevices, InAnimation, InSettings, InBattery, InPreference
  <2> QED
    BY <2>2
      DEF ScanNext, InScan, Scan!Next, Scan!Updater, Scan!Stopping, Scan!Listening
<1>3. [PartNext]_all => [Animation!Next]_Animation!vars
  <2>1. animationVars' = animationVars => UNCHANGED Animation!vars
    BY DEF animationVars, Animation!vars, Animation!keyVars, Animation!showVars,
           Animation!tellVars, Animation!historyVars
  <2> SUFFICES ASSUME PartNext, animationVars' # animationVars PROVE Animation!Next
    BY <2>1
  <2>2. AnimationNext
    BY DEF PartNext, DevicesNext, ScanNext, SettingsNext, BatteryNext, PreferenceNext,
           InDevices, InScan, InSettings, InBattery, InPreference
  <2> QED
    BY <2>2 DEF AnimationNext, InAnimation, Animation!Next
<1>4. [PartNext]_all => [Settings!Next]_Settings!vars
  <2>1. settingsVars' = settingsVars => UNCHANGED Settings!vars
    BY DEF settingsVars, Settings!vars, Settings!threadVars
  <2> SUFFICES ASSUME PartNext, settingsVars' # settingsVars PROVE Settings!Next
    BY <2>1
  <2>2. SettingsNext
    BY DEF PartNext, DevicesNext, ScanNext, AnimationNext, BatteryNext, PreferenceNext,
           InDevices, InScan, InAnimation, InBattery, InPreference
  <2> QED
    BY <2>2 DEF SettingsNext, InSettings, Settings!Next
<1>5. [PartNext]_all => [HandsFree!Next]_HandsFree!vars
  <2>1. batteryVars' = batteryVars => UNCHANGED HandsFree!vars
    BY DEF batteryVars, HandsFree!vars, HandsFree!bluezVars, HandsFree!infoVars
  <2> SUFFICES ASSUME PartNext, batteryVars' # batteryVars PROVE HandsFree!Next
    BY <2>1
  <2>2. BatteryNext
    BY DEF PartNext, DevicesNext, ScanNext, AnimationNext, SettingsNext, PreferenceNext,
           InDevices, InScan, InAnimation, InSettings, InPreference
  <2> QED
    BY <2>2 DEF BatteryNext, InBattery, HandsFree!Next
<1>6. [PartNext]_all => [Preference!Next]_Preference!vars
  <2>1. preferenceVars' = preferenceVars => UNCHANGED Preference!vars
    BY DEF preferenceVars, Preference!vars, Preference!handshake, Preference!history
  <2> SUFFICES ASSUME PartNext, preferenceVars' # preferenceVars PROVE Preference!Next
    BY <2>1
  <2>2. PreferenceNext
    BY DEF PartNext, DevicesNext, ScanNext, AnimationNext, SettingsNext, BatteryNext,
           InDevices, InScan, InAnimation, InSettings, InBattery
  <2> QED
    BY <2>2 DEF PreferenceNext, InPreference, Preference!Next
<1> QED
  BY <1>1, <1>2, <1>3, <1>4, <1>5, <1>6, PTL
    DEF PartSpec, Scan!Spec, Animation!Spec, Settings!Spec, HandsFree!Spec, Preference!Spec

(***************************************************************************)
(* The scan: UpdateBleState() and DBusBasedBleAdvertisingService.          *)
(***************************************************************************)
\* Threads, what they are about and what is listened to.
Updating == {"update", "unsubscribe", "subscribe", "discover", "desire", "started",
             "stop", "deafen", "clear", "stopDiscovery", "stopped"}
Restarting == {"sleep", "unsubscribe", "subscribe", "discover", "desire"}
ScanTypes ==
    /\ setting \in {"on", "off", "other"} /\ scanFailed \in BOOLEAN
    /\ apple \in BOOLEAN /\ started \in BOOLEAN /\ desired \in BOOLEAN
    /\ powered \in BOOLEAN /\ discovering \in BOOLEAN /\ entry \in BOOLEAN
    /\ listeners \subseteq Scan!Ids /\ field \in Scan!Ids \cup {0}
    /\ scanExcused \subseteq {"update", "restart"}
    /\ scanPc \in [Scan!Threads -> Updating \cup {"idle", "sleep", "added", "remember"}]
    /\ \A r \in Restarters : scanPc[r] \in Restarting \cup {"idle"}
    /\ scanPc["server"] \in Updating \cup {"idle"}
    /\ scanPc["dbus"] \in Updating \cup {"idle", "added", "remember"}
    /\ signals \in Seq(BOOLEAN)

\* The device is heard once, and only while it is remembered or about to be.
HeardOnceInv ==
    /\ heard = IF entry \/ scanPc["dbus"] = "remember" THEN 1 ELSE 0
    /\ scanPc["dbus"] = "remember" => ~entry

\* The adapter's power is the last of its changes, and nothing is discovered without it.
PowerInv ==
    /\ discovering => powered
    /\ signals # <<>> => Last(signals) = powered

\* One update at a time starts or stops what the setting and the devices ask for.
To(phase) == \E t \in Scan!Updaters : scanPc[t] \in phase
UpdateInv ==
    "update" \notin scanExcused =>
        /\ ~(Scan!Busy("server") /\ Scan!Busy("dbus"))
        /\ To({"unsubscribe", "subscribe", "discover", "desire", "started"}) =>
               Scan!Readable /\ Scan!Wanted /\ ~started
        /\ To({"stop", "deafen", "clear", "stopDiscovery", "stopped"}) =>
               Scan!Readable /\ ~Scan!Wanted /\ started
        /\ ~To(Updating) /\ Scan!Readable =>
               (started => Scan!Wanted) /\ (Scan!Wanted => started \/ scanFailed)

\* One thread at a time does anything to the scan: where it is says what there is of it.
At(phase) == \E t \in Scan!Threads : scanPc[t] \in phase
Restarts == \E r \in Restarters : scanPc[r] # "idle"
AloneInv ==
    scanExcused = {} =>
        /\ \A t, u \in Scan!Threads : Scan!Busy(t) /\ Scan!Busy(u) => t = u
        /\ Restarts => started /\ desired
        /\ To({"unsubscribe", "subscribe", "discover", "desire"}) => ~desired
        /\ To({"started"}) => desired
        /\ To({"stop"}) => desired
        /\ To({"deafen", "clear", "stopDiscovery", "stopped"}) => ~desired
        /\ ~To(Updating \ {"update"}) => desired = started

ListenersInv ==
    scanExcused = {} =>
        /\ At({"subscribe"}) => listeners = {}
        /\ Restarts => field # 0
        /\ To({"discover", "desire", "started", "stop", "deafen"}) => field # 0
        /\ To({"clear", "stopDiscovery", "stopped"}) => field = 0
        /\ ~To(Updating \ {"update"}) => (started => field # 0)
        /\ ~To(Updating \ {"update"}) /\ field # 0 => started \/ scanFailed
        /\ ~At({"subscribe"}) => listeners = IF field # 0 THEN {field} ELSE {}
        /\ entry \/ scanPc["dbus"] \in {"added", "remember"} =>
               (field # 0 \/ To({"clear"})) /\ ~To({"stopDiscovery", "stopped"})

\* A discovery the adapter has ended is started again, by a thread that is on its way to it or
\* will be once it is heard that the adapter has power, unless a call to start it has failed.
Returns == signals # <<>> /\ powered
DiscoveryInv ==
    scanExcused = {} =>
        /\ desired /\ powered /\ ~discovering =>
               scanFailed \/ Returns \/ \E r \in Restarters :
                       scanPc[r] \in {"sleep", "unsubscribe", "subscribe", "discover"}
        /\ At({"desire"}) /\ powered /\ ~discovering => Returns
        /\ discovering /\ ~desired =>
               scanFailed \/ To({"desire", "deafen", "clear", "stopDiscovery"})
ScanInv ==
    /\ ScanTypes /\ HeardOnceInv /\ PowerInv /\ UpdateInv /\ AloneInv /\ ListenersInv
    /\ DiscoveryInv

\* What a change of the adapter's power does: nothing, or a thread starts the scan again.
LEMMA PowerHandled ==
    ASSUME ScanInv, Scan!OnAdapterPowerChanged
    PROVE  /\ UNCHANGED <<started, desired, discovering, scanFailed, listeners, field, entry,
                          heard, setting, apple, powered>>
           /\ scanPc["dbus"] = "idle" /\ scanExcused \subseteq scanExcused'
           /\ scanExcused' \subseteq {"update", "restart"}
           /\ scanExcused' = {} => scanPc["server"] = "idle"
           /\ signals # <<>> /\ signals' \in Seq(BOOLEAN)
           /\ signals' # <<>> => Last(signals') = Last(signals)
           /\ signals' = <<>> => Last(signals) = signals[1]
           /\ \/ scanPc' = scanPc /\ ~(signals[1] /\ desired)
              \/ /\ desired
                 /\ \E r \in Restarters :
                        /\ scanPc[r] = "idle" /\ scanPc' = [scanPc EXCEPT ![r] = "sleep"]
                        /\ scanExcused' = {} => \A t \in Scan!Threads : t # r => scanPc[t] = "idle"
<1>1. /\ signals \in Seq(BOOLEAN) /\ signals # <<>> /\ signals' = Tail(signals)
      /\ scanPc["dbus"] = "idle"
  BY DEF Scan!OnAdapterPowerChanged, ScanInv, ScanTypes
<1>2. /\ signals' \in Seq(BOOLEAN) /\ Head(signals) = signals[1]
      /\ signals' # <<>> => Last(signals') = Last(signals)
      /\ signals' = <<>> => Last(signals) = signals[1]
  BY <1>1, Taken
<1>3. scanExcused' = scanExcused \cup Scan!Overlaps'
                        \cup (IF Scan!Busy("server") THEN {"restart"} ELSE {})
  BY DEF Scan!OnAdapterPowerChanged
<1>4. /\ scanExcused \subseteq scanExcused' /\ scanExcused' \subseteq {"update", "restart"}
      /\ scanExcused' = {} => scanPc["server"] = "idle"
  BY <1>3 DEF Scan!Overlaps, Scan!Busy, ScanInv, ScanTypes
<1>5. CASE ~(Head(signals) /\ desired)
  BY <1>1, <1>2, <1>4, <1>5
     DEF Scan!OnAdapterPowerChanged, Scan!scanVars, Scan!heardVars
<1>6. CASE Head(signals) /\ desired
  <2>1. PICK r \in Restarters : scanPc[r] = "idle" /\ scanPc' = [scanPc EXCEPT ![r] = "sleep"]
    BY <1>6 DEF Scan!OnAdapterPowerChanged, Scan!Goes
  <2>2. ASSUME scanExcused' = {}, NEW t \in Scan!Threads, t # r
        PROVE  scanPc[t] = "idle"
    <3>1. /\ r \in Scan!Threads
          /\ scanPc \in [Scan!Threads -> Updating \cup {"idle", "sleep", "added", "remember"}]
      BY DEF Scan!Threads, ScanInv, ScanTypes
    <3>2. scanPc'[r] = "sleep" /\ scanPc'[t] = scanPc[t]
      BY <2>1, <2>2, <3>1
    <3>3. ~(\E s \in Restarters, u \in Scan!Threads :
                u # s /\ Scan!Busy(s)' /\ Scan!Busy(u)')
      BY <1>3, <2>2 DEF Scan!Overlaps
    <3> QED
      BY <2>2, <3>2, <3>3 DEF Scan!Busy
  <2> QED
    BY <1>1, <1>2, <1>4, <1>6, <2>1, <2>2
       DEF Scan!OnAdapterPowerChanged, Scan!scanVars, Scan!heardVars
<1> QED
  BY <1>5, <1>6

\* Threads are where their calls are.
LEMMA ScanTypesStep == ScanInv /\ [Scan!Next]_Scan!vars => ScanTypes'
<1> SUFFICES ASSUME ScanInv, [Scan!Next]_Scan!vars PROVE ScanTypes'
  OBVIOUS
<1>1. CASE Scan!OnSettingUpdate
  BY <1>1, RestartersAssumption
    DEF Scan!OnSettingUpdate, Scan!Goes, Scan!Count, Scan!Notes, Scan!scanVars, Scan!heardVars,
        Scan!Overlaps, Scan!Busy, Scan!Threads, Scan!Updaters, Scan!Ids, Updating, Restarting,
        ScanTypes, ScanInv
<1>2. CASE Scan!DevicesChange
  BY <1>2, RestartersAssumption
    DEF Scan!DevicesChange, Scan!Goes, Scan!Count, Scan!Notes, Scan!scanVars, Scan!heardVars,
        Scan!Overlaps, Scan!Busy, Scan!Threads, Scan!Updaters, Scan!Ids, Updating, Restarting,
        ScanTypes, ScanInv
<1>3. ASSUME NEW t \in Scan!Updaters, Scan!UpdateBleState(t)
      PROVE  ScanTypes'
  <2>1. PICK to \in {"idle", "unsubscribe", "stop"} : scanPc' = [scanPc EXCEPT ![t] = to]
    BY <1>3 DEF Scan!UpdateBleState, Scan!Wanted, Scan!Readable, Scan!Goes
  <2>2. t \in {"server", "dbus"} /\ t \in Scan!Threads /\ t \notin Restarters
    BY <1>3, RestartersAssumption DEF Scan!Updaters, Scan!Threads
  <2>3. /\ scanPc' \in [Scan!Threads -> Updating \cup {"idle", "sleep", "added", "remember"}]
        /\ \A r \in Restarters : scanPc'[r] \in Restarting \cup {"idle"}
        /\ scanPc'["server"] \in Updating \cup {"idle"}
        /\ scanPc'["dbus"] \in Updating \cup {"idle", "added", "remember"}
    BY <2>1, <2>2, RestartersAssumption DEF Updating, ScanTypes, ScanInv, Scan!Threads,
        Scan!Updaters
  <2> QED
    BY <1>3, <2>3
      DEF Scan!UpdateBleState, Scan!Wanted, Scan!Readable, Scan!scanVars, Scan!heardVars,
          Scan!outside, ScanTypes, ScanInv, Scan!Threads, Scan!Updaters, Scan!Ids
<1>4. ASSUME NEW t \in Scan!Updaters, Scan!SetStarted(t)
      PROVE  ScanTypes'
  <2>1. scanPc' = [scanPc EXCEPT ![t] = "idle"] /\ started' \in BOOLEAN
    BY <1>4 DEF Scan!SetStarted, Scan!Goes
  <2>2. t \in {"server", "dbus"} /\ t \in Scan!Threads /\ t \notin Restarters
    BY <1>4, RestartersAssumption DEF Scan!Updaters, Scan!Threads
  <2>3. /\ scanPc' \in [Scan!Threads -> Updating \cup {"idle", "sleep", "added", "remember"}]
        /\ \A r \in Restarters : scanPc'[r] \in Restarting \cup {"idle"}
        /\ scanPc'["server"] \in Updating \cup {"idle"}
        /\ scanPc'["dbus"] \in Updating \cup {"idle", "added", "remember"}
    BY <2>1, <2>2, RestartersAssumption DEF ScanTypes, ScanInv, Scan!Threads, Scan!Updaters
  <2> QED
    BY <1>4, <2>1, <2>3
      DEF Scan!SetStarted, Scan!heardVars, Scan!outside, ScanTypes, ScanInv
<1>5. ASSUME NEW t \in Scan!Updaters, Scan!ScanUndesired(t)
      PROVE  ScanTypes'
  <2>1. /\ scanPc' = [scanPc EXCEPT ![t] = "deafen"] /\ desired' = FALSE
        /\ t \in {"server", "dbus"} /\ t \in Scan!Threads /\ t \notin Restarters
    BY <1>5, RestartersAssumption
      DEF Scan!ScanUndesired, Scan!Goes, Scan!Updaters, Scan!Threads
  <2>2. /\ scanPc' \in [Scan!Threads -> Updating \cup {"idle", "sleep", "added", "remember"}]
        /\ \A r \in Restarters : scanPc'[r] \in Restarting \cup {"idle"}
        /\ scanPc'["server"] \in Updating \cup {"idle"}
        /\ scanPc'["dbus"] \in Updating \cup {"idle", "added", "remember"}
    BY <2>1, RestartersAssumption
      DEF Updating, ScanTypes, ScanInv, Scan!Threads, Scan!Updaters
  <2> QED
    BY <1>5, <2>1, <2>2
      DEF Scan!ScanUndesired, Scan!heardVars, Scan!outside, ScanTypes, ScanInv
<1>6. ASSUME NEW t \in Scan!Updaters, Scan!StopListening(t)
      PROVE  ScanTypes'
  BY <1>6, RestartersAssumption
    DEF Scan!StopListening, Scan!Goes, Scan!scanVars, Scan!outside, Scan!Threads, Scan!Updaters,
        Scan!Ids, Updating, Restarting, ScanTypes, ScanInv
<1>7. ASSUME NEW t \in Scan!Updaters, Scan!StopHearing(t)
      PROVE  ScanTypes'
  BY SMT, ZenonT(60), <1>7, RestartersAssumption
    DEF Scan!StopHearing, Scan!Goes, Scan!scanVars, Scan!outside, Scan!Threads, Scan!Updaters,
        Scan!Ids, Updating, Restarting, ScanTypes, ScanInv
<1>8. ASSUME NEW t \in Scan!Updaters, Scan!StopDiscoveryAsync(t)
      PROVE  ScanTypes'
  BY SMT, ZenonT(60), <1>8, RestartersAssumption
    DEF Scan!StopDiscoveryAsync, Scan!Goes, Scan!heardVars, Scan!outside, Scan!Threads,
        Scan!Updaters, Scan!Ids, Updating, Restarting, ScanTypes, ScanInv
<1>9. ASSUME NEW t \in Scan!Threads, Scan!ListenUnsubscribes(t)
      PROVE  ScanTypes'
  BY <1>9, RestartersAssumption
    DEF Scan!ListenUnsubscribes, Scan!Goes, Scan!scanVars, Scan!outside, Scan!Threads,
        Scan!Updaters, Scan!Ids, Updating, Restarting, ScanTypes, ScanInv
<1>10. ASSUME NEW t \in Scan!Threads, Scan!ListenSubscribes(t)
      PROVE  ScanTypes'
  BY <1>10, RestartersAssumption
    DEF Scan!ListenSubscribes, Scan!Goes, Scan!Ids, Scan!scanVars, Scan!outside, Scan!Threads,
        Scan!Updaters, Updating, Restarting, ScanTypes, ScanInv
<1>11. ASSUME NEW t \in Scan!Threads, Scan!StartDiscovery(t)
      PROVE  ScanTypes'
  BY <1>11, RestartersAssumption
    DEF Scan!StartDiscovery, Scan!Goes, Scan!heardVars, Scan!outside, Scan!Threads, Scan!Updaters,
        Scan!Ids, Updating, Restarting, ScanTypes, ScanInv
<1>12. ASSUME NEW t \in Scan!Threads, Scan!ScanDesired(t)
      PROVE  ScanTypes'
  BY <1>12, RestartersAssumption
    DEF Scan!ScanDesired, Scan!Goes, Scan!Updaters, Scan!heardVars, Scan!outside, Scan!Threads,
        Scan!Ids, Updating, Restarting, ScanTypes, ScanInv
<1>13. ASSUME NEW r \in Restarters, Scan!RestartWakes(r)
      PROVE  ScanTypes'
  BY <1>13, RestartersAssumption
    DEF Scan!RestartWakes, Scan!Goes, Scan!scanVars, Scan!heardVars, Scan!outside, Scan!Threads,
        Scan!Updaters, Scan!Ids, Updating, Restarting, ScanTypes, ScanInv
<1>14. CASE Scan!PowerChanges
  BY <1>14, RestartersAssumption
    DEF Scan!PowerChanges, Scan!Count, Scan!heardVars, Scan!Threads, Scan!Updaters, Scan!Ids,
        Updating, Restarting, ScanTypes, ScanInv
<1>15. CASE Scan!OnAdapterPowerChanged
  <2>1. /\ scanPc' \in [Scan!Threads -> Updating \cup {"idle", "sleep", "added", "remember"}]
        /\ \A r \in Restarters : scanPc'[r] \in Restarting \cup {"idle"}
        /\ scanPc'["server"] = scanPc["server"] /\ scanPc'["dbus"] = scanPc["dbus"]
    <3>1. CASE scanPc' = scanPc
      BY <3>1 DEF ScanInv, ScanTypes
    <3>2. CASE \E r \in Restarters : scanPc' = [scanPc EXCEPT ![r] = "sleep"]
      BY <3>2, RestartersAssumption DEF ScanInv, ScanTypes, Restarting, Scan!Threads, Scan!Updaters
    <3> QED
      BY <1>15, <3>1, <3>2, PowerHandled
  <2> QED
    BY <1>15, <2>1, PowerHandled DEF ScanInv, ScanTypes
<1>16. CASE Scan!FindsDevice
  BY <1>16, RestartersAssumption
    DEF Scan!FindsDevice, Scan!Count, Scan!Goes, Scan!Notes, Scan!scanVars, Scan!heardVars,
        Scan!Overlaps, Scan!Busy, Scan!Threads, Scan!Updaters, Scan!Ids, Updating, Restarting,
        ScanTypes, ScanInv
<1>17. CASE Scan!OnDeviceAdded
  BY SMT, ZenonT(60), <1>17, RestartersAssumption
    DEF Scan!OnDeviceAdded, Scan!Goes, Scan!scanVars, Scan!outside, Scan!Threads, Scan!Updaters,
        Scan!Ids, Updating, Restarting, ScanTypes, ScanInv
<1>18. CASE Scan!Remember
  BY <1>18, RestartersAssumption
    DEF Scan!Remember, Scan!Goes, Scan!scanVars, Scan!outside, Scan!Threads, Scan!Updaters,
        Scan!Ids, Updating, Restarting, ScanTypes, ScanInv
<1>19. CASE Scan!LosesDevice
  BY <1>19 DEF Scan!LosesDevice, Scan!scanVars, Scan!outside, ScanTypes, ScanInv
<1>20. CASE UNCHANGED Scan!vars
  BY <1>20
    DEF Scan!vars, Scan!scanVars, Scan!heardVars, Scan!outside, Updating, Restarting, ScanTypes,
        ScanInv, Scan!Threads, Scan!Updaters, Scan!Ids
<1>21. ASSUME NEW t \in Scan!Threads, Scan!StartDiscoveryFails(t)
      PROVE  ScanTypes'
  BY <1>21, RestartersAssumption
    DEF Scan!StartDiscoveryFails, Scan!Goes, Scan!heardVars, Scan!outside, Scan!Threads,
        Scan!Updaters, Scan!Ids, Updating, Restarting, ScanTypes, ScanInv
<1> QED
  BY <1>1, <1>2, <1>3, <1>4, <1>5, <1>6, <1>7, <1>8, <1>9, <1>10, <1>11, <1>12, <1>13, <1>14,
     <1>15, <1>16, <1>17, <1>18, <1>19, <1>20, <1>21
    DEF Scan!Next, Scan!Updater, Scan!Listening, Scan!Stopping

\* The device is heard once.
LEMMA HeardOnceStep == ScanInv /\ [Scan!Next]_Scan!vars => HeardOnceInv'
<1> SUFFICES ASSUME ScanInv, [Scan!Next]_Scan!vars PROVE HeardOnceInv'
  OBVIOUS
<1>1. CASE Scan!OnSettingUpdate
  BY <1>1, RestartersAssumption
    DEF Scan!OnSettingUpdate, Scan!Goes, Scan!Count, Scan!Notes, Scan!scanVars, Scan!heardVars,
        Scan!Overlaps, Scan!Busy, Scan!Threads, Scan!Updaters, HeardOnceInv, ScanTypes, Updating,
        Restarting, ScanInv
<1>2. CASE Scan!DevicesChange
  BY <1>2, RestartersAssumption
    DEF Scan!DevicesChange, Scan!Goes, Scan!Count, Scan!Notes, Scan!scanVars, Scan!heardVars,
        Scan!Overlaps, Scan!Busy, Scan!Threads, Scan!Updaters, HeardOnceInv, ScanTypes, Updating,
        Restarting, ScanInv
<1>3. ASSUME NEW t \in Scan!Updaters, Scan!UpdateBleState(t)
      PROVE  HeardOnceInv'
  BY <1>3, RestartersAssumption
    DEF Scan!UpdateBleState, Scan!Wanted, Scan!Readable, Scan!Goes, Scan!scanVars, Scan!heardVars,
        Scan!outside, Scan!Threads, Scan!Updaters, HeardOnceInv, ScanTypes, Updating, Restarting,
        ScanInv
<1>4. ASSUME NEW t \in Scan!Updaters, Scan!SetStarted(t)
      PROVE  HeardOnceInv'
  BY <1>4, RestartersAssumption
    DEF Scan!SetStarted, Scan!Goes, Scan!heardVars, Scan!outside, Scan!Threads, Scan!Updaters,
        HeardOnceInv, ScanTypes, Updating, Restarting, ScanInv
<1>5. ASSUME NEW t \in Scan!Updaters, Scan!ScanUndesired(t)
      PROVE  HeardOnceInv'
  BY <1>5, RestartersAssumption
    DEF Scan!ScanUndesired, Scan!Goes, Scan!heardVars, Scan!outside, Scan!Threads, Scan!Updaters,
        HeardOnceInv, ScanTypes, Updating, Restarting, ScanInv
<1>6. ASSUME NEW t \in Scan!Updaters, Scan!StopListening(t)
      PROVE  HeardOnceInv'
  BY <1>6, RestartersAssumption
    DEF Scan!StopListening, Scan!Goes, Scan!scanVars, Scan!outside, Scan!Threads, Scan!Updaters,
        HeardOnceInv, ScanTypes, Updating, Restarting, ScanInv
<1>7. ASSUME NEW t \in Scan!Updaters, Scan!StopHearing(t)
      PROVE  HeardOnceInv'
  BY <1>7, RestartersAssumption
    DEF Scan!StopHearing, Scan!Goes, Scan!scanVars, Scan!outside, Scan!Threads, Scan!Updaters,
        HeardOnceInv, ScanTypes, Updating, Restarting, ScanInv
<1>8. ASSUME NEW t \in Scan!Updaters, Scan!StopDiscoveryAsync(t)
      PROVE  HeardOnceInv'
  BY <1>8, RestartersAssumption
    DEF Scan!StopDiscoveryAsync, Scan!Goes, Scan!heardVars, Scan!outside, Scan!Threads,
        Scan!Updaters, HeardOnceInv, ScanTypes, Updating, Restarting, ScanInv
<1>9. ASSUME NEW t \in Scan!Threads, Scan!ListenUnsubscribes(t)
      PROVE  HeardOnceInv'
  BY <1>9, RestartersAssumption
    DEF Scan!ListenUnsubscribes, Scan!Goes, Scan!scanVars, Scan!outside, Scan!Threads,
        Scan!Updaters, HeardOnceInv, ScanTypes, Updating, Restarting, ScanInv
<1>10. ASSUME NEW t \in Scan!Threads, Scan!ListenSubscribes(t)
      PROVE  HeardOnceInv'
  BY <1>10, RestartersAssumption
    DEF Scan!ListenSubscribes, Scan!Goes, Scan!Ids, Scan!scanVars, Scan!outside, Scan!Threads,
        Scan!Updaters, HeardOnceInv, ScanTypes, Updating, Restarting, ScanInv
<1>11. ASSUME NEW t \in Scan!Threads, Scan!StartDiscovery(t)
      PROVE  HeardOnceInv'
  BY <1>11, RestartersAssumption
    DEF Scan!StartDiscovery, Scan!Goes, Scan!heardVars, Scan!outside, Scan!Threads, Scan!Updaters,
        HeardOnceInv, ScanTypes, Updating, Restarting, ScanInv
<1>12. ASSUME NEW t \in Scan!Threads, Scan!ScanDesired(t)
      PROVE  HeardOnceInv'
  BY <1>12, RestartersAssumption
    DEF Scan!ScanDesired, Scan!Goes, Scan!Updaters, Scan!heardVars, Scan!outside, Scan!Threads,
        HeardOnceInv, ScanTypes, Updating, Restarting, ScanInv
<1>13. ASSUME NEW r \in Restarters, Scan!RestartWakes(r)
      PROVE  HeardOnceInv'
  BY <1>13, RestartersAssumption
    DEF Scan!RestartWakes, Scan!Goes, Scan!scanVars, Scan!heardVars, Scan!outside, Scan!Threads,
        Scan!Updaters, HeardOnceInv, ScanTypes, Updating, Restarting, ScanInv
<1>14. CASE Scan!PowerChanges
  BY <1>14, RestartersAssumption
    DEF Scan!PowerChanges, Scan!Count, Scan!heardVars, Scan!Threads, Scan!Updaters, HeardOnceInv,
        ScanTypes, Updating, Restarting, ScanInv
<1>15. CASE Scan!OnAdapterPowerChanged
  BY <1>15, RestartersAssumption
    DEF Scan!OnAdapterPowerChanged, Scan!Goes, Scan!Overlaps, Scan!Busy, Scan!scanVars,
        Scan!heardVars, Scan!Threads, Scan!Updaters, HeardOnceInv, ScanTypes, Updating,
        Restarting, ScanInv
<1>16. CASE Scan!FindsDevice
  BY <1>16, RestartersAssumption
    DEF Scan!FindsDevice, Scan!Count, Scan!Goes, Scan!Notes, Scan!scanVars, Scan!heardVars,
        Scan!Overlaps, Scan!Busy, Scan!Threads, Scan!Updaters, HeardOnceInv, ScanTypes, Updating,
        Restarting, ScanInv
<1>17. CASE Scan!OnDeviceAdded
  BY <1>17, RestartersAssumption
    DEF Scan!OnDeviceAdded, Scan!Goes, Scan!scanVars, Scan!outside, Scan!Threads, Scan!Updaters,
        HeardOnceInv, ScanTypes, Updating, Restarting, ScanInv
<1>18. CASE Scan!Remember
  BY <1>18, RestartersAssumption
    DEF Scan!Remember, Scan!Goes, Scan!scanVars, Scan!outside, Scan!Threads, Scan!Updaters,
        HeardOnceInv, ScanTypes, Updating, Restarting, ScanInv
<1>19. CASE Scan!LosesDevice
  BY <1>19, RestartersAssumption
    DEF Scan!LosesDevice, Scan!scanVars, Scan!outside, Scan!Threads, Scan!Updaters, HeardOnceInv,
        ScanTypes, Updating, Restarting, ScanInv
<1>20. CASE UNCHANGED Scan!vars
  BY <1>20
    DEF Scan!vars, Scan!scanVars, Scan!heardVars, Scan!outside, HeardOnceInv, ScanTypes, Updating,
        Restarting, ScanInv, Scan!Threads, Scan!Updaters
<1>21. ASSUME NEW t \in Scan!Threads, Scan!StartDiscoveryFails(t)
      PROVE  HeardOnceInv'
  BY <1>21, RestartersAssumption
    DEF Scan!StartDiscoveryFails, Scan!Goes, Scan!heardVars, Scan!outside, Scan!Threads,
        Scan!Updaters, HeardOnceInv, ScanTypes, Updating, Restarting, ScanInv
<1> QED
  BY <1>1, <1>2, <1>3, <1>4, <1>5, <1>6, <1>7, <1>8, <1>9, <1>10, <1>11, <1>12, <1>13, <1>14,
     <1>15, <1>16, <1>17, <1>18, <1>19, <1>20, <1>21
    DEF Scan!Next, Scan!Updater, Scan!Listening, Scan!Stopping

\* The last change of the power is the power.
LEMMA PowerStep == ScanInv /\ [Scan!Next]_Scan!vars => PowerInv'
<1> SUFFICES ASSUME ScanInv, [Scan!Next]_Scan!vars PROVE PowerInv'
  OBVIOUS
<1>1. CASE Scan!OnSettingUpdate
  BY <1>1, RestartersAssumption
    DEF Scan!OnSettingUpdate, Scan!Goes, Scan!Count, Scan!Notes, Scan!scanVars, Scan!heardVars,
        Scan!Overlaps, Scan!Busy, Scan!Threads, Scan!Updaters, PowerInv, ScanTypes, Updating,
        Restarting, ScanInv
<1>2. CASE Scan!DevicesChange
  BY <1>2, RestartersAssumption
    DEF Scan!DevicesChange, Scan!Goes, Scan!Count, Scan!Notes, Scan!scanVars, Scan!heardVars,
        Scan!Overlaps, Scan!Busy, Scan!Threads, Scan!Updaters, PowerInv, ScanTypes, Updating,
        Restarting, ScanInv
<1>3. ASSUME NEW t \in Scan!Updaters, Scan!UpdateBleState(t)
      PROVE  PowerInv'
  BY <1>3, RestartersAssumption
    DEF Scan!UpdateBleState, Scan!Wanted, Scan!Readable, Scan!Goes, Scan!scanVars, Scan!heardVars,
        Scan!outside, Scan!Threads, Scan!Updaters, PowerInv, ScanTypes, Updating, Restarting,
        ScanInv
<1>4. ASSUME NEW t \in Scan!Updaters, Scan!SetStarted(t)
      PROVE  PowerInv'
  BY <1>4, RestartersAssumption
    DEF Scan!SetStarted, Scan!Goes, Scan!heardVars, Scan!outside, Scan!Threads, Scan!Updaters,
        PowerInv, ScanTypes, Updating, Restarting, ScanInv
<1>5. ASSUME NEW t \in Scan!Updaters, Scan!ScanUndesired(t)
      PROVE  PowerInv'
  BY <1>5, RestartersAssumption
    DEF Scan!ScanUndesired, Scan!Goes, Scan!heardVars, Scan!outside, Scan!Threads, Scan!Updaters,
        PowerInv, ScanTypes, Updating, Restarting, ScanInv
<1>6. ASSUME NEW t \in Scan!Updaters, Scan!StopListening(t)
      PROVE  PowerInv'
  BY <1>6, RestartersAssumption
    DEF Scan!StopListening, Scan!Goes, Scan!scanVars, Scan!outside, Scan!Threads, Scan!Updaters,
        PowerInv, ScanTypes, Updating, Restarting, ScanInv
<1>7. ASSUME NEW t \in Scan!Updaters, Scan!StopHearing(t)
      PROVE  PowerInv'
  BY <1>7, RestartersAssumption
    DEF Scan!StopHearing, Scan!Goes, Scan!scanVars, Scan!outside, Scan!Threads, Scan!Updaters,
        PowerInv, ScanTypes, Updating, Restarting, ScanInv
<1>8. ASSUME NEW t \in Scan!Updaters, Scan!StopDiscoveryAsync(t)
      PROVE  PowerInv'
  BY <1>8, RestartersAssumption
    DEF Scan!StopDiscoveryAsync, Scan!Goes, Scan!heardVars, Scan!outside, Scan!Threads,
        Scan!Updaters, PowerInv, ScanTypes, Updating, Restarting, ScanInv
<1>9. ASSUME NEW t \in Scan!Threads, Scan!ListenUnsubscribes(t)
      PROVE  PowerInv'
  BY <1>9, RestartersAssumption
    DEF Scan!ListenUnsubscribes, Scan!Goes, Scan!scanVars, Scan!outside, Scan!Threads,
        Scan!Updaters, PowerInv, ScanTypes, Updating, Restarting, ScanInv
<1>10. ASSUME NEW t \in Scan!Threads, Scan!ListenSubscribes(t)
      PROVE  PowerInv'
  BY <1>10, RestartersAssumption
    DEF Scan!ListenSubscribes, Scan!Goes, Scan!Ids, Scan!scanVars, Scan!outside, Scan!Threads,
        Scan!Updaters, PowerInv, ScanTypes, Updating, Restarting, ScanInv
<1>11. ASSUME NEW t \in Scan!Threads, Scan!StartDiscovery(t)
      PROVE  PowerInv'
  BY <1>11, RestartersAssumption
    DEF Scan!StartDiscovery, Scan!Goes, Scan!heardVars, Scan!outside, Scan!Threads, Scan!Updaters,
        PowerInv, ScanTypes, Updating, Restarting, ScanInv
<1>12. ASSUME NEW t \in Scan!Threads, Scan!ScanDesired(t)
      PROVE  PowerInv'
  BY <1>12, RestartersAssumption
    DEF Scan!ScanDesired, Scan!Goes, Scan!Updaters, Scan!heardVars, Scan!outside, Scan!Threads,
        PowerInv, ScanTypes, Updating, Restarting, ScanInv
<1>13. ASSUME NEW r \in Restarters, Scan!RestartWakes(r)
      PROVE  PowerInv'
  BY <1>13, RestartersAssumption
    DEF Scan!RestartWakes, Scan!Goes, Scan!scanVars, Scan!heardVars, Scan!outside, Scan!Threads,
        Scan!Updaters, PowerInv, ScanTypes, Updating, Restarting, ScanInv
<1>14. CASE Scan!PowerChanges
  <2>1. /\ signals \in Seq(BOOLEAN) /\ powered' \in BOOLEAN
        /\ signals' = Append(signals, powered')
    BY <1>14 DEF Scan!PowerChanges, ScanInv, ScanTypes
  <2>2. signals' # <<>> /\ Last(signals') = powered'
    BY <2>1, Appended
  <2> QED
    BY <1>14, <2>2 DEF Scan!PowerChanges, ScanInv, PowerInv
<1>15. CASE Scan!OnAdapterPowerChanged
  <2> QED
    BY <1>15, PowerHandled DEF ScanInv, PowerInv
<1>16. CASE Scan!FindsDevice
  BY <1>16, RestartersAssumption
    DEF Scan!FindsDevice, Scan!Count, Scan!Goes, Scan!Notes, Scan!scanVars, Scan!heardVars,
        Scan!Overlaps, Scan!Busy, Scan!Threads, Scan!Updaters, PowerInv, ScanTypes, Updating,
        Restarting, ScanInv
<1>17. CASE Scan!OnDeviceAdded
  BY <1>17, RestartersAssumption
    DEF Scan!OnDeviceAdded, Scan!Goes, Scan!scanVars, Scan!outside, Scan!Threads, Scan!Updaters,
        PowerInv, ScanTypes, Updating, Restarting, ScanInv
<1>18. CASE Scan!Remember
  BY <1>18, RestartersAssumption
    DEF Scan!Remember, Scan!Goes, Scan!scanVars, Scan!outside, Scan!Threads, Scan!Updaters,
        PowerInv, ScanTypes, Updating, Restarting, ScanInv
<1>19. CASE Scan!LosesDevice
  BY <1>19, RestartersAssumption
    DEF Scan!LosesDevice, Scan!scanVars, Scan!outside, Scan!Threads, Scan!Updaters, PowerInv,
        ScanTypes, Updating, Restarting, ScanInv
<1>20. CASE UNCHANGED Scan!vars
  BY <1>20
    DEF Scan!vars, Scan!scanVars, Scan!heardVars, Scan!outside, PowerInv, ScanTypes, Updating,
        Restarting, ScanInv, Scan!Threads, Scan!Updaters
<1>21. ASSUME NEW t \in Scan!Threads, Scan!StartDiscoveryFails(t)
      PROVE  PowerInv'
  BY <1>21, RestartersAssumption
    DEF Scan!StartDiscoveryFails, Scan!Goes, Scan!heardVars, Scan!outside, Scan!Threads,
        Scan!Updaters, PowerInv, ScanTypes, Updating, Restarting, ScanInv
<1> QED
  BY <1>1, <1>2, <1>3, <1>4, <1>5, <1>6, <1>7, <1>8, <1>9, <1>10, <1>11, <1>12, <1>13, <1>14,
     <1>15, <1>16, <1>17, <1>18, <1>19, <1>20, <1>21
    DEF Scan!Next, Scan!Updater, Scan!Listening, Scan!Stopping

\* An update does what is asked for.
LEMMA UpdateStep == ScanInv /\ [Scan!Next]_Scan!vars => UpdateInv'
<1> SUFFICES ASSUME ScanInv, [Scan!Next]_Scan!vars PROVE UpdateInv'
  OBVIOUS
<1>1. CASE Scan!OnSettingUpdate
  BY <1>1, RestartersAssumption
    DEF Scan!OnSettingUpdate, Scan!Goes, Scan!Count, Scan!Notes, Scan!scanVars, Scan!heardVars,
        Scan!Overlaps, Scan!Busy, Scan!Threads, Scan!Updaters, To, Updating, Scan!Wanted,
        Scan!Readable, UpdateInv, ScanTypes, Restarting, ScanInv
<1>2. CASE Scan!DevicesChange
  BY <1>2, RestartersAssumption
    DEF Scan!DevicesChange, Scan!Goes, Scan!Count, Scan!Notes, Scan!scanVars, Scan!heardVars,
        Scan!Overlaps, Scan!Busy, Scan!Threads, Scan!Updaters, To, Updating, Scan!Wanted,
        Scan!Readable, UpdateInv, ScanTypes, Restarting, ScanInv
<1>3. ASSUME NEW t \in Scan!Updaters, Scan!UpdateBleState(t)
      PROVE  UpdateInv'
  BY <1>3, RestartersAssumption
    DEF Scan!UpdateBleState, Scan!Wanted, Scan!Readable, Scan!Goes, Scan!scanVars, Scan!heardVars,
        Scan!outside, Scan!Threads, Scan!Updaters, Scan!Busy, To, Updating, Scan!Wanted,
        Scan!Readable, UpdateInv, ScanTypes, Restarting, ScanInv
<1>4. ASSUME NEW t \in Scan!Updaters, Scan!SetStarted(t)
      PROVE  UpdateInv'
  <2>1. /\ \/ scanPc[t] = "started" /\ started' = TRUE
           \/ scanPc[t] = "stopped" /\ started' = FALSE
        /\ scanPc' = [scanPc EXCEPT ![t] = "idle"]
        /\ UNCHANGED <<setting, apple, scanExcused, scanFailed>>
    BY <1>4 DEF Scan!SetStarted, Scan!Goes, Scan!outside
  <2>a. \A u \in Scan!Threads : scanPc'[u] = IF u = t THEN "idle" ELSE scanPc[u]
    BY <2>1 DEF ScanTypes, ScanInv
  <2>2. SUFFICES ASSUME "update" \notin scanExcused
                 PROVE  /\ ~(Scan!Busy("server") /\ Scan!Busy("dbus"))'
                        /\ ~To(Updating)' /\ started' = Scan!Wanted
    BY <2>1 DEF UpdateInv, To, Updating, Scan!Wanted, Scan!Readable
  <2>3. /\ Scan!Busy(t) /\ ~(Scan!Busy("server") /\ Scan!Busy("dbus"))
        /\ t \in {"server", "dbus"} /\ {"server", "dbus"} \subseteq Scan!Threads
    BY <1>4, <2>1, <2>2 DEF Scan!Busy, Scan!Updaters, Scan!Threads, UpdateInv, ScanInv
  <2>4. scanPc'["server"] = "idle" /\ scanPc'["dbus"] = "idle"
    BY <2>1, <2>3, <2>a DEF Scan!Busy
  <2>5. started' = Scan!Wanted
    BY <1>4, <2>1, <2>2 DEF To, Scan!Wanted, UpdateInv, ScanInv
  <2> QED
    BY <2>4, <2>5 DEF Scan!Busy, To, Updating, Scan!Updaters
<1>5. ASSUME NEW t \in Scan!Updaters, Scan!ScanUndesired(t)
      PROVE  UpdateInv'
  BY <1>5, RestartersAssumption
    DEF Scan!ScanUndesired, Scan!Goes, Scan!heardVars, Scan!outside, Scan!Threads, Scan!Updaters,
        Scan!Busy, To, Updating, Scan!Wanted, Scan!Readable, UpdateInv, ScanTypes, Restarting,
        ScanInv
<1>6. ASSUME NEW t \in Scan!Updaters, Scan!StopListening(t)
      PROVE  UpdateInv'
  BY <1>6, RestartersAssumption
    DEF Scan!StopListening, Scan!Goes, Scan!scanVars, Scan!outside, Scan!Threads, Scan!Updaters,
        Scan!Busy, To, Updating, Scan!Wanted, Scan!Readable, UpdateInv, ScanTypes, Restarting,
        ScanInv
<1>7. ASSUME NEW t \in Scan!Updaters, Scan!StopHearing(t)
      PROVE  UpdateInv'
  BY <1>7, RestartersAssumption
    DEF Scan!StopHearing, Scan!Goes, Scan!scanVars, Scan!outside, Scan!Threads, Scan!Updaters,
        Scan!Busy, To, Updating, Scan!Wanted, Scan!Readable, UpdateInv, ScanTypes, Restarting,
        ScanInv
<1>8. ASSUME NEW t \in Scan!Updaters, Scan!StopDiscoveryAsync(t)
      PROVE  UpdateInv'
  BY <1>8, RestartersAssumption
    DEF Scan!StopDiscoveryAsync, Scan!Goes, Scan!heardVars, Scan!outside, Scan!Threads,
        Scan!Updaters, Scan!Busy, To, Updating, Scan!Wanted, Scan!Readable, UpdateInv, ScanTypes,
        Restarting, ScanInv
<1>9. ASSUME NEW t \in Scan!Threads, Scan!ListenUnsubscribes(t)
      PROVE  UpdateInv'
  BY <1>9, RestartersAssumption
    DEF Scan!ListenUnsubscribes, Scan!Goes, Scan!scanVars, Scan!outside, Scan!Threads,
        Scan!Updaters, Scan!Busy, To, Updating, Scan!Wanted, Scan!Readable, UpdateInv, ScanTypes,
        Restarting, ScanInv
<1>10. ASSUME NEW t \in Scan!Threads, Scan!ListenSubscribes(t)
      PROVE  UpdateInv'
  BY <1>10, RestartersAssumption
    DEF Scan!ListenSubscribes, Scan!Goes, Scan!Ids, Scan!scanVars, Scan!outside, Scan!Threads,
        Scan!Updaters, Scan!Busy, To, Updating, Scan!Wanted, Scan!Readable, UpdateInv, ScanTypes,
        Restarting, ScanInv
<1>11. ASSUME NEW t \in Scan!Threads, Scan!StartDiscovery(t)
      PROVE  UpdateInv'
  BY <1>11, RestartersAssumption
    DEF Scan!StartDiscovery, Scan!Goes, Scan!heardVars, Scan!outside, Scan!Threads, Scan!Updaters,
        Scan!Busy, To, Updating, Scan!Wanted, Scan!Readable, UpdateInv, ScanTypes, Restarting,
        ScanInv
<1>12. ASSUME NEW t \in Scan!Threads, Scan!ScanDesired(t)
      PROVE  UpdateInv'
  BY <1>12, RestartersAssumption
    DEF Scan!ScanDesired, Scan!Goes, Scan!Updaters, Scan!heardVars, Scan!outside, Scan!Threads,
        Scan!Busy, To, Updating, Scan!Wanted, Scan!Readable, UpdateInv, ScanTypes, Restarting,
        ScanInv
<1>13. ASSUME NEW r \in Restarters, Scan!RestartWakes(r)
      PROVE  UpdateInv'
  BY <1>13, RestartersAssumption
    DEF Scan!RestartWakes, Scan!Goes, Scan!scanVars, Scan!heardVars, Scan!outside, Scan!Threads,
        Scan!Updaters, Scan!Busy, To, Updating, Scan!Wanted, Scan!Readable, UpdateInv, ScanTypes,
        Restarting, ScanInv
<1>14. CASE Scan!PowerChanges
  BY <1>14, RestartersAssumption
    DEF Scan!PowerChanges, Scan!Count, Scan!heardVars, Scan!Threads, Scan!Updaters, Scan!Busy, To,
        Updating, Scan!Wanted, Scan!Readable, UpdateInv, ScanTypes, Restarting, ScanInv
<1>15. CASE Scan!OnAdapterPowerChanged
  <2>1. UNCHANGED <<setting, apple, started, scanFailed>> /\ scanExcused \subseteq scanExcused'
    BY <1>15, PowerHandled
  <2>2. scanPc'["server"] = scanPc["server"] /\ scanPc'["dbus"] = scanPc["dbus"]
    <3>1. \/ scanPc' = scanPc
          \/ \E r \in Restarters : scanPc' = [scanPc EXCEPT ![r] = "sleep"]
      BY <1>15, PowerHandled
    <3> QED
      BY <3>1, RestartersAssumption DEF ScanTypes, ScanInv, Scan!Threads, Scan!Updaters
  <2> QED
    BY <2>1, <2>2 DEF Scan!Busy, Scan!Updaters, To, Scan!Wanted, Scan!Readable, UpdateInv, ScanInv
<1>16. CASE Scan!FindsDevice
  BY <1>16, RestartersAssumption
    DEF Scan!FindsDevice, Scan!Count, Scan!Goes, Scan!Notes, Scan!scanVars, Scan!heardVars,
        Scan!Overlaps, Scan!Busy, Scan!Threads, Scan!Updaters, To, Updating, Scan!Wanted,
        Scan!Readable, UpdateInv, ScanTypes, Restarting, ScanInv
<1>17. CASE Scan!OnDeviceAdded
  BY <1>17, RestartersAssumption
    DEF Scan!OnDeviceAdded, Scan!Goes, Scan!scanVars, Scan!outside, Scan!Threads, Scan!Updaters,
        Scan!Busy, To, Updating, Scan!Wanted, Scan!Readable, UpdateInv, ScanTypes, Restarting,
        ScanInv
<1>18. CASE Scan!Remember
  BY <1>18, RestartersAssumption
    DEF Scan!Remember, Scan!Goes, Scan!scanVars, Scan!outside, Scan!Threads, Scan!Updaters,
        Scan!Busy, To, Updating, Scan!Wanted, Scan!Readable, UpdateInv, ScanTypes, Restarting,
        ScanInv
<1>19. CASE Scan!LosesDevice
  BY <1>19, RestartersAssumption
    DEF Scan!LosesDevice, Scan!scanVars, Scan!outside, Scan!Threads, Scan!Updaters, Scan!Busy, To,
        Updating, Scan!Wanted, Scan!Readable, UpdateInv, ScanTypes, Restarting, ScanInv
<1>20. CASE UNCHANGED Scan!vars
  BY <1>20
    DEF Scan!vars, Scan!scanVars, Scan!heardVars, Scan!outside, To, Updating, Scan!Wanted,
        Scan!Readable, UpdateInv, ScanTypes, Restarting, ScanInv, Scan!Threads, Scan!Updaters,
        Scan!Busy
<1>21. ASSUME NEW t \in Scan!Threads, Scan!StartDiscoveryFails(t)
      PROVE  UpdateInv'
  BY <1>21, RestartersAssumption
    DEF Scan!StartDiscoveryFails, Scan!Goes, Scan!heardVars, Scan!outside, Scan!Threads,
        Scan!Updaters, Scan!Busy, To, Updating, Scan!Wanted, Scan!Readable, UpdateInv, ScanTypes,
        Restarting, ScanInv
<1> QED
  BY <1>1, <1>2, <1>3, <1>4, <1>5, <1>6, <1>7, <1>8, <1>9, <1>10, <1>11, <1>12, <1>13, <1>14,
     <1>15, <1>16, <1>17, <1>18, <1>19, <1>20, <1>21
    DEF Scan!Next, Scan!Updater, Scan!Listening, Scan!Stopping

\* A thread is alone, and the scan where it has brought it.
LEMMA AloneStep == ScanInv /\ [Scan!Next]_Scan!vars => AloneInv'
<1> SUFFICES ASSUME ScanInv, [Scan!Next]_Scan!vars PROVE AloneInv'
  OBVIOUS
<1>1. CASE Scan!OnSettingUpdate
  BY <1>1, RestartersAssumption
    DEF Scan!OnSettingUpdate, Scan!Goes, Scan!Count, Scan!Notes, Scan!scanVars, Scan!heardVars,
        Scan!Overlaps, Scan!Busy, Scan!Threads, Scan!Updaters, Restarts, To, Updating, AloneInv,
        ScanTypes, Restarting, ScanInv
<1>2. CASE Scan!DevicesChange
  BY <1>2, RestartersAssumption
    DEF Scan!DevicesChange, Scan!Goes, Scan!Count, Scan!Notes, Scan!scanVars, Scan!heardVars,
        Scan!Overlaps, Scan!Busy, Scan!Threads, Scan!Updaters, Restarts, To, Updating, AloneInv,
        ScanTypes, Restarting, ScanInv
<1>3. ASSUME NEW t \in Scan!Updaters, Scan!UpdateBleState(t)
      PROVE  AloneInv'
  BY <1>3, RestartersAssumption
    DEF Scan!UpdateBleState, Scan!Wanted, Scan!Readable, Scan!Goes, Scan!scanVars, Scan!heardVars,
        Scan!outside, Scan!Threads, Scan!Updaters, Scan!Busy, Restarts, To, Updating, AloneInv,
        ScanTypes, Restarting, ScanInv
<1>4. ASSUME NEW t \in Scan!Updaters, Scan!SetStarted(t)
      PROVE  AloneInv'
  <2>1. CASE Scan!Goes(t, "started", "idle") /\ started' = TRUE
    BY <1>4, <2>1, RestartersAssumption
       DEF Scan!SetStarted, Scan!Goes, Scan!heardVars, Scan!outside, ScanInv, AloneInv, ScanTypes,
           Updating, Restarting, Scan!Threads, Scan!Updaters, Scan!Busy, To, Restarts
  <2>2. CASE Scan!Goes(t, "stopped", "idle") /\ started' = FALSE
    BY <1>4, <2>2, RestartersAssumption
       DEF Scan!SetStarted, Scan!Goes, Scan!heardVars, Scan!outside, ScanInv, AloneInv, ScanTypes,
           Updating, Restarting, Scan!Threads, Scan!Updaters, Scan!Busy, To, Restarts
  <2> QED
    BY <1>4, <2>1, <2>2 DEF Scan!SetStarted
<1>5. ASSUME NEW t \in Scan!Updaters, Scan!ScanUndesired(t)
      PROVE  AloneInv'
  BY SMT, ZenonT(60), <1>5, RestartersAssumption
    DEF Scan!ScanUndesired, Scan!Goes, Scan!heardVars, Scan!outside, Scan!Threads, Scan!Updaters,
        Scan!Busy, Restarts, To, Updating, AloneInv, ScanTypes, Restarting, ScanInv
<1>6. ASSUME NEW t \in Scan!Updaters, Scan!StopListening(t)
      PROVE  AloneInv'
  BY <1>6, RestartersAssumption
    DEF Scan!StopListening, Scan!Goes, Scan!scanVars, Scan!outside, Scan!Threads, Scan!Updaters,
        Scan!Busy, Restarts, To, Updating, AloneInv, ScanTypes, Restarting, ScanInv
<1>7. ASSUME NEW t \in Scan!Updaters, Scan!StopHearing(t)
      PROVE  AloneInv'
  BY <1>7, RestartersAssumption
    DEF Scan!StopHearing, Scan!Goes, Scan!scanVars, Scan!outside, Scan!Threads, Scan!Updaters,
        Scan!Busy, Restarts, To, Updating, AloneInv, ScanTypes, Restarting, ScanInv
<1>8. ASSUME NEW t \in Scan!Updaters, Scan!StopDiscoveryAsync(t)
      PROVE  AloneInv'
  BY <1>8, RestartersAssumption
    DEF Scan!StopDiscoveryAsync, Scan!Goes, Scan!heardVars, Scan!outside, Scan!Threads,
        Scan!Updaters, Scan!Busy, Restarts, To, Updating, AloneInv, ScanTypes, Restarting, ScanInv
<1>9. ASSUME NEW t \in Scan!Threads, Scan!ListenUnsubscribes(t)
      PROVE  AloneInv'
  BY <1>9, RestartersAssumption
    DEF Scan!ListenUnsubscribes, Scan!Goes, Scan!scanVars, Scan!outside, Scan!Threads,
        Scan!Updaters, Scan!Busy, Restarts, To, Updating, AloneInv, ScanTypes, Restarting, ScanInv
<1>10. ASSUME NEW t \in Scan!Threads, Scan!ListenSubscribes(t)
      PROVE  AloneInv'
  BY <1>10, RestartersAssumption
    DEF Scan!ListenSubscribes, Scan!Goes, Scan!Ids, Scan!scanVars, Scan!outside, Scan!Threads,
        Scan!Updaters, Scan!Busy, Restarts, To, Updating, AloneInv, ScanTypes, Restarting, ScanInv
<1>11. ASSUME NEW t \in Scan!Threads, Scan!StartDiscovery(t)
      PROVE  AloneInv'
  BY <1>11, RestartersAssumption
    DEF Scan!StartDiscovery, Scan!Goes, Scan!heardVars, Scan!outside, Scan!Threads, Scan!Updaters,
        Scan!Busy, Restarts, To, Updating, AloneInv, ScanTypes, Restarting, ScanInv
<1>12. ASSUME NEW t \in Scan!Threads, Scan!ScanDesired(t)
      PROVE  AloneInv'
  <2>1. /\ scanPc[t] = "desire" /\ desired' = TRUE /\ UNCHANGED <<scanExcused, started>>
        /\ scanPc' = [scanPc EXCEPT ![t] = IF t \in Scan!Updaters THEN "started" ELSE "idle"]
    BY <1>12 DEF Scan!ScanDesired, Scan!Goes
  <2>a. /\ \A u \in Scan!Threads : u # t => scanPc'[u] = scanPc[u]
        /\ scanPc'[t] = IF t \in Scan!Updaters THEN "started" ELSE "idle"
    BY <1>12, <2>1 DEF ScanTypes, ScanInv
  <2>2. SUFFICES ASSUME scanExcused = {} PROVE AloneInv'
    BY <2>1 DEF AloneInv
  <2>3. \A u \in Scan!Threads : u # t => scanPc[u] = "idle" /\ scanPc'[u] = "idle"
    BY <1>12, <2>1, <2>2, <2>a DEF AloneInv, Scan!Busy, ScanInv
  <2>4. Scan!Updaters \subseteq Scan!Threads /\ Restarters \subseteq Scan!Threads
        /\ Scan!Updaters \cap Restarters = {} /\ t \in Scan!Updaters \cup Restarters
    BY <1>12, RestartersAssumption DEF Scan!Updaters, Scan!Threads
  <2>5. CASE t \in Scan!Updaters
    <3>1. scanPc'[t] = "started" /\ ~Restarts'
      BY <2>a, <2>3, <2>4, <2>5 DEF Restarts
    <3> QED
      BY <2>1, <2>3, <2>4, <2>5, <3>1 DEF AloneInv, To, Updating, Scan!Busy
  <2>6. CASE t \in Restarters
    <3>1. scanPc'[t] = "idle" /\ started
      BY <2>1, <2>a, <2>2, <2>4, <2>6 DEF AloneInv, Restarts, ScanInv
    <3> QED
      BY <2>1, <2>3, <2>4, <2>6, <3>1 DEF AloneInv, To, Restarts, Updating, Scan!Busy
  <2> QED
    BY <2>4, <2>5, <2>6
<1>13. ASSUME NEW r \in Restarters, Scan!RestartWakes(r)
      PROVE  AloneInv'
  BY <1>13, RestartersAssumption
    DEF Scan!RestartWakes, Scan!Goes, Scan!scanVars, Scan!heardVars, Scan!outside, Scan!Threads,
        Scan!Updaters, Scan!Busy, Restarts, To, Updating, AloneInv, ScanTypes, Restarting, ScanInv
<1>14. CASE Scan!PowerChanges
  BY <1>14, RestartersAssumption
    DEF Scan!PowerChanges, Scan!Count, Scan!heardVars, Scan!Threads, Scan!Updaters, Scan!Busy,
        Restarts, To, Updating, AloneInv, ScanTypes, Restarting, ScanInv
<1>15. CASE Scan!OnAdapterPowerChanged
  <2>1. CASE scanPc' = scanPc /\ ~(signals[1] /\ desired)
    BY <1>15, <2>1, PowerHandled, RestartersAssumption
       DEF ScanInv, AloneInv, ScanTypes, Updating, Restarting, Scan!Threads, Scan!Updaters,
           Scan!Busy, To, Restarts
  <2>2. CASE \E r \in Restarters :
                /\ desired /\ scanPc[r] = "idle" /\ scanPc' = [scanPc EXCEPT ![r] = "sleep"]
                /\ scanExcused' = {} => \A t \in Scan!Threads : t # r => scanPc[t] = "idle"
    <3>1. SUFFICES ASSUME scanExcused' = {} PROVE AloneInv'
      BY DEF AloneInv
    <3>2. PICK r \in Restarters :
                /\ desired /\ scanPc[r] = "idle" /\ scanPc' = [scanPc EXCEPT ![r] = "sleep"]
                /\ \A t \in Scan!Threads : t # r => scanPc[t] = "idle"
      BY <2>2, <3>1
    <3>3. \A t \in Scan!Threads : t # r => scanPc'[t] = "idle"
      BY <3>2 DEF ScanTypes, ScanInv
    <3>4. r \notin Scan!Updaters /\ Scan!Updaters \subseteq Scan!Threads
      BY RestartersAssumption DEF Scan!Updaters, Scan!Threads
    <3>5. /\ ~To(Updating) /\ ~To(Updating)' /\ desired' = desired /\ started' = started
          /\ scanExcused = {}
      BY <1>15, <3>1, <3>2, <3>3, <3>4, PowerHandled DEF To, Updating
    <3>6. started
      BY <3>2, <3>5 DEF AloneInv, To, ScanInv
    <3> QED
      BY <3>2, <3>3, <3>4, <3>5, <3>6 DEF AloneInv, To, Restarts, Updating, Scan!Busy
  <2> QED
    BY <1>15, <2>1, <2>2, PowerHandled
<1>16. CASE Scan!FindsDevice
  BY <1>16, RestartersAssumption
    DEF Scan!FindsDevice, Scan!Count, Scan!Goes, Scan!Notes, Scan!scanVars, Scan!heardVars,
        Scan!Overlaps, Scan!Busy, Scan!Threads, Scan!Updaters, Restarts, To, Updating, AloneInv,
        ScanTypes, Restarting, ScanInv
<1>17. CASE Scan!OnDeviceAdded
  BY <1>17, RestartersAssumption
    DEF Scan!OnDeviceAdded, Scan!Goes, Scan!scanVars, Scan!outside, Scan!Threads, Scan!Updaters,
        Scan!Busy, Restarts, To, Updating, AloneInv, ScanTypes, Restarting, ScanInv
<1>18. CASE Scan!Remember
  BY <1>18, RestartersAssumption
    DEF Scan!Remember, Scan!Goes, Scan!scanVars, Scan!outside, Scan!Threads, Scan!Updaters,
        Scan!Busy, Restarts, To, Updating, AloneInv, ScanTypes, Restarting, ScanInv
<1>19. CASE Scan!LosesDevice
  BY <1>19, RestartersAssumption
    DEF Scan!LosesDevice, Scan!scanVars, Scan!outside, Scan!Threads, Scan!Updaters, Scan!Busy,
        Restarts, To, Updating, AloneInv, ScanTypes, Restarting, ScanInv
<1>20. CASE UNCHANGED Scan!vars
  BY <1>20
    DEF Scan!vars, Scan!scanVars, Scan!heardVars, Scan!outside, Restarts, To, Updating, AloneInv,
        ScanTypes, Restarting, ScanInv, Scan!Threads, Scan!Updaters, Scan!Busy
<1>21. ASSUME NEW t \in Scan!Threads, Scan!StartDiscoveryFails(t)
      PROVE  AloneInv'
  <2>1. /\ scanPc[t] = "discover" /\ scanPc' = [scanPc EXCEPT ![t] = "idle"]
        /\ UNCHANGED <<started, desired, scanExcused>>
    BY <1>21 DEF Scan!StartDiscoveryFails, Scan!Goes
  <2>2. SUFFICES ASSUME scanExcused = {} PROVE AloneInv'
    BY <2>1 DEF AloneInv
  <2>3. \A u \in Scan!Threads : scanPc'[u] = "idle"
    BY <1>21, <2>1, <2>2 DEF AloneInv, Scan!Busy, ScanTypes, ScanInv
  <2>4. Scan!Updaters \subseteq Scan!Threads /\ Restarters \subseteq Scan!Threads
        /\ t \in Scan!Updaters \cup Restarters
    BY <1>21 DEF Scan!Threads
  <2>5. desired = started
    <3>1. CASE t \in Restarters
      BY <2>1, <2>2, <3>1 DEF AloneInv, Restarts, ScanTypes, ScanInv
    <3>2. CASE t \in Scan!Updaters
      <4>1. To({"unsubscribe", "subscribe", "discover", "desire"})
        BY <2>1, <3>2 DEF To
      <4>2. ~desired
        BY <2>2, <4>1 DEF AloneInv, ScanInv
      <4>3. ~started
        BY <2>1, <2>2, <3>2 DEF UpdateInv, To, ScanInv
      <4> QED
        BY <4>2, <4>3 DEF ScanTypes, ScanInv
    <3> QED
      BY <2>4, <3>1, <3>2
  <2> QED
    BY <2>1, <2>3, <2>4, <2>5 DEF AloneInv, To, Restarts, Updating, Scan!Busy
<1> QED
  BY <1>1, <1>2, <1>3, <1>4, <1>5, <1>6, <1>7, <1>8, <1>9, <1>10, <1>11, <1>12, <1>13, <1>14,
     <1>15, <1>16, <1>17, <1>18, <1>19, <1>20, <1>21
    DEF Scan!Next, Scan!Updater, Scan!Listening, Scan!Stopping

\* So are the subscriptions.
LEMMA ListenersStep == ScanInv /\ [Scan!Next]_Scan!vars => ListenersInv'
<1> SUFFICES ASSUME ScanInv, [Scan!Next]_Scan!vars PROVE ListenersInv'
  OBVIOUS
<1>1. CASE Scan!OnSettingUpdate
  BY <1>1, RestartersAssumption
    DEF Scan!OnSettingUpdate, Scan!Goes, Scan!Count, Scan!Notes, Scan!scanVars, Scan!heardVars,
        Scan!Overlaps, Scan!Busy, Scan!Threads, Scan!Updaters, Scan!Ids, At, To, Restarts,
        Updating, ListenersInv, HeardOnceInv, AloneInv, ScanTypes, Restarting, ScanInv
<1>2. CASE Scan!DevicesChange
  BY <1>2, RestartersAssumption
    DEF Scan!DevicesChange, Scan!Goes, Scan!Count, Scan!Notes, Scan!scanVars, Scan!heardVars,
        Scan!Overlaps, Scan!Busy, Scan!Threads, Scan!Updaters, Scan!Ids, At, To, Restarts,
        Updating, ListenersInv, HeardOnceInv, AloneInv, ScanTypes, Restarting, ScanInv
<1>3. ASSUME NEW t \in Scan!Updaters, Scan!UpdateBleState(t)
      PROVE  ListenersInv'
  BY <1>3, RestartersAssumption
    DEF Scan!UpdateBleState, Scan!Wanted, Scan!Readable, Scan!Goes, Scan!scanVars, Scan!heardVars,
        Scan!outside, Scan!Threads, Scan!Updaters, Scan!Busy, Scan!Ids, At, To, Restarts,
        Updating, ListenersInv, HeardOnceInv, AloneInv, ScanTypes, Restarting, ScanInv
<1>4. ASSUME NEW t \in Scan!Updaters, Scan!SetStarted(t)
      PROVE  ListenersInv'
  <2>1. CASE Scan!Goes(t, "started", "idle") /\ started' = TRUE
    BY <1>4, <2>1, RestartersAssumption
       DEF Scan!SetStarted, Scan!Goes, Scan!heardVars, Scan!outside, ScanInv, ListenersInv,
           AloneInv, ScanTypes, Updating, Restarting, Scan!Threads, Scan!Updaters, Scan!Busy, To,
           At, Restarts
  <2>2. CASE Scan!Goes(t, "stopped", "idle") /\ started' = FALSE
    BY <1>4, <2>2, RestartersAssumption
       DEF Scan!SetStarted, Scan!Goes, Scan!heardVars, Scan!outside, ScanInv, ListenersInv,
           AloneInv, ScanTypes, Updating, Restarting, Scan!Threads, Scan!Updaters, Scan!Busy, To,
           At, Restarts
  <2> QED
    BY <1>4, <2>1, <2>2 DEF Scan!SetStarted
<1>5. ASSUME NEW t \in Scan!Updaters, Scan!ScanUndesired(t)
      PROVE  ListenersInv'
  BY <1>5, RestartersAssumption
    DEF Scan!ScanUndesired, Scan!Goes, Scan!heardVars, Scan!outside, Scan!Threads, Scan!Updaters,
        Scan!Busy, Scan!Ids, At, To, Restarts, Updating, ListenersInv, HeardOnceInv, AloneInv,
        ScanTypes, Restarting, ScanInv
<1>6. ASSUME NEW t \in Scan!Updaters, Scan!StopListening(t)
      PROVE  ListenersInv'
  BY <1>6, RestartersAssumption
    DEF Scan!StopListening, Scan!Goes, Scan!scanVars, Scan!outside, Scan!Threads, Scan!Updaters,
        Scan!Busy, Scan!Ids, At, To, Restarts, Updating, ListenersInv, HeardOnceInv, AloneInv,
        ScanTypes, Restarting, ScanInv
<1>7. ASSUME NEW t \in Scan!Updaters, Scan!StopHearing(t)
      PROVE  ListenersInv'
  BY <1>7, RestartersAssumption
    DEF Scan!StopHearing, Scan!Goes, Scan!scanVars, Scan!outside, Scan!Threads, Scan!Updaters,
        Scan!Busy, Scan!Ids, At, To, Restarts, Updating, ListenersInv, HeardOnceInv, AloneInv,
        ScanTypes, Restarting, ScanInv
<1>8. ASSUME NEW t \in Scan!Updaters, Scan!StopDiscoveryAsync(t)
      PROVE  ListenersInv'
  BY <1>8, RestartersAssumption
    DEF Scan!StopDiscoveryAsync, Scan!Goes, Scan!heardVars, Scan!outside, Scan!Threads,
        Scan!Updaters, Scan!Busy, Scan!Ids, At, To, Restarts, Updating, ListenersInv,
        HeardOnceInv, AloneInv, ScanTypes, Restarting, ScanInv
<1>9. ASSUME NEW t \in Scan!Threads, Scan!ListenUnsubscribes(t)
      PROVE  ListenersInv'
  BY <1>9, RestartersAssumption
    DEF Scan!ListenUnsubscribes, Scan!Goes, Scan!scanVars, Scan!outside, Scan!Threads,
        Scan!Updaters, Scan!Busy, Scan!Ids, At, To, Restarts, Updating, ListenersInv,
        HeardOnceInv, AloneInv, ScanTypes, Restarting, ScanInv
<1>10. ASSUME NEW t \in Scan!Threads, Scan!ListenSubscribes(t)
      PROVE  ListenersInv'
  <2>1. PICK id \in Scan!Ids \ (listeners \cup {field}) :
            field' = id /\ listeners' = listeners \cup {id}
    BY <1>10 DEF Scan!ListenSubscribes
  <2>2. id # 0
    BY DEF Scan!Ids
  <2>3. /\ scanPc[t] = "subscribe" /\ scanPc' = [scanPc EXCEPT ![t] = "discover"]
        /\ UNCHANGED <<started, desired, discovering, entry, heard, scanExcused>>
    BY <1>10 DEF Scan!ListenSubscribes, Scan!Goes, Scan!scanVars
  <2> SUFFICES ASSUME scanExcused = {} PROVE ListenersInv'
    BY <2>3 DEF ListenersInv
  <2>4. /\ listeners = {} /\ \A u \in Scan!Threads : u # t => scanPc[u] = "idle"
    BY <2>3 DEF ScanInv, ListenersInv, AloneInv, Scan!Busy, At
  <2>5. /\ scanPc'[t] = "discover" /\ \A u \in Scan!Threads : u # t => scanPc'[u] = "idle"
    BY <2>3, <2>4 DEF ScanInv, ScanTypes
  <2>6. t \in Restarters => started
    BY <2>3 DEF ScanInv, AloneInv, Restarts
  <2> QED
    BY <1>10, <2>1, <2>2, <2>3, <2>4, <2>5, <2>6, RestartersAssumption
       DEF ScanInv, ListenersInv, Updating, ScanTypes, Restarting, Scan!Threads, Scan!Updaters,
           To, At,
           Restarts
<1>11. ASSUME NEW t \in Scan!Threads, Scan!StartDiscovery(t)
      PROVE  ListenersInv'
  BY <1>11, RestartersAssumption
    DEF Scan!StartDiscovery, Scan!Goes, Scan!heardVars, Scan!outside, Scan!Threads, Scan!Updaters,
        Scan!Busy, Scan!Ids, At, To, Restarts, Updating, ListenersInv, HeardOnceInv, AloneInv,
        ScanTypes, Restarting, ScanInv
<1>12. ASSUME NEW t \in Scan!Threads, Scan!ScanDesired(t)
      PROVE  ListenersInv'
  BY <1>12, RestartersAssumption
    DEF Scan!ScanDesired, Scan!Goes, Scan!Updaters, Scan!heardVars, Scan!outside, Scan!Threads,
        Scan!Busy, Scan!Ids, At, To, Restarts, Updating, ListenersInv, HeardOnceInv, AloneInv,
        ScanTypes, Restarting, ScanInv
<1>13. ASSUME NEW r \in Restarters, Scan!RestartWakes(r)
      PROVE  ListenersInv'
  BY <1>13, RestartersAssumption
    DEF Scan!RestartWakes, Scan!Goes, Scan!scanVars, Scan!heardVars, Scan!outside, Scan!Threads,
        Scan!Updaters, Scan!Busy, Scan!Ids, At, To, Restarts, Updating, ListenersInv,
        HeardOnceInv, AloneInv, ScanTypes, Restarting, ScanInv
<1>14. CASE Scan!PowerChanges
  BY <1>14, RestartersAssumption
    DEF Scan!PowerChanges, Scan!Count, Scan!heardVars, Scan!Threads, Scan!Updaters, Scan!Busy,
        Scan!Ids, At, To, Restarts, Updating, ListenersInv, HeardOnceInv, AloneInv, ScanTypes,
        Restarting, ScanInv
<1>15. CASE Scan!OnAdapterPowerChanged
  <2>1. CASE scanPc' = scanPc /\ ~(signals[1] /\ desired)
    BY <1>15, <2>1, PowerHandled, RestartersAssumption
       DEF ScanInv, ListenersInv, AloneInv, ScanTypes, Updating, Restarting, Scan!Threads,
           Scan!Updaters, To, At, Restarts
  <2>2. CASE \E r \in Restarters :
                /\ desired /\ scanPc[r] = "idle" /\ scanPc' = [scanPc EXCEPT ![r] = "sleep"]
                /\ scanExcused' = {} => \A t \in Scan!Threads : t # r => scanPc[t] = "idle"
    BY SMT, ZenonT(60), <1>15, <2>2, PowerHandled, RestartersAssumption
       DEF ScanInv, ListenersInv, AloneInv, ScanTypes, Updating, Restarting, Scan!Threads,
           Scan!Updaters, To, At, Restarts
  <2> QED
    BY <1>15, <2>1, <2>2, PowerHandled
<1>16. CASE Scan!FindsDevice
  BY <1>16, RestartersAssumption
    DEF Scan!FindsDevice, Scan!Count, Scan!Goes, Scan!Notes, Scan!scanVars, Scan!heardVars,
        Scan!Overlaps, Scan!Busy, Scan!Threads, Scan!Updaters, Scan!Ids, At, To, Restarts,
        Updating, ListenersInv, HeardOnceInv, AloneInv, ScanTypes, Restarting, ScanInv
<1>17. CASE Scan!OnDeviceAdded
  BY <1>17, RestartersAssumption
    DEF Scan!OnDeviceAdded, Scan!Goes, Scan!scanVars, Scan!outside, Scan!Threads, Scan!Updaters,
        Scan!Busy, Scan!Ids, At, To, Restarts, Updating, ListenersInv, HeardOnceInv, AloneInv,
        ScanTypes, Restarting, ScanInv
<1>18. CASE Scan!Remember
  BY <1>18, RestartersAssumption
    DEF Scan!Remember, Scan!Goes, Scan!scanVars, Scan!outside, Scan!Threads, Scan!Updaters,
        Scan!Busy, Scan!Ids, At, To, Restarts, Updating, ListenersInv, HeardOnceInv, AloneInv,
        ScanTypes, Restarting, ScanInv
<1>19. CASE Scan!LosesDevice
  BY <1>19, RestartersAssumption
    DEF Scan!LosesDevice, Scan!scanVars, Scan!outside, Scan!Threads, Scan!Updaters, Scan!Busy,
        Scan!Ids, At, To, Restarts, Updating, ListenersInv, HeardOnceInv, AloneInv, ScanTypes,
        Restarting, ScanInv
<1>20. CASE UNCHANGED Scan!vars
  BY <1>20
    DEF Scan!vars, Scan!scanVars, Scan!heardVars, Scan!outside, At, To, Restarts, Updating,
        ListenersInv, HeardOnceInv, AloneInv, ScanTypes, Restarting, ScanInv, Scan!Threads,
        Scan!Updaters, Scan!Busy, Scan!Ids
<1>21. ASSUME NEW t \in Scan!Threads, Scan!StartDiscoveryFails(t)
      PROVE  ListenersInv'
  BY <1>21, RestartersAssumption
    DEF Scan!StartDiscoveryFails, Scan!Goes, Scan!heardVars, Scan!outside, Scan!Threads,
        Scan!Updaters, Scan!Busy, Scan!Ids, At, To, Restarts, Updating, ListenersInv,
        HeardOnceInv, AloneInv, ScanTypes, Restarting, ScanInv
<1> QED
  BY <1>1, <1>2, <1>3, <1>4, <1>5, <1>6, <1>7, <1>8, <1>9, <1>10, <1>11, <1>12, <1>13, <1>14,
     <1>15, <1>16, <1>17, <1>18, <1>19, <1>20, <1>21
    DEF Scan!Next, Scan!Updater, Scan!Listening, Scan!Stopping

\* And the discovery, which is started again.
LEMMA DiscoveryStep == ScanInv /\ [Scan!Next]_Scan!vars => DiscoveryInv'
<1> SUFFICES ASSUME ScanInv, [Scan!Next]_Scan!vars PROVE DiscoveryInv'
  OBVIOUS
<1>1. CASE Scan!OnSettingUpdate
  BY <1>1, RestartersAssumption
    DEF Scan!OnSettingUpdate, Scan!Goes, Scan!Count, Scan!Notes, Scan!scanVars, Scan!heardVars,
        Scan!Overlaps, Scan!Busy, Scan!Threads, Scan!Updaters, Returns, At, To, DiscoveryInv,
        PowerInv, AloneInv, ScanTypes, Updating, Restarting, ScanInv
<1>2. CASE Scan!DevicesChange
  BY <1>2, RestartersAssumption
    DEF Scan!DevicesChange, Scan!Goes, Scan!Count, Scan!Notes, Scan!scanVars, Scan!heardVars,
        Scan!Overlaps, Scan!Busy, Scan!Threads, Scan!Updaters, Returns, At, To, DiscoveryInv,
        PowerInv, AloneInv, ScanTypes, Updating, Restarting, ScanInv
<1>3. ASSUME NEW t \in Scan!Updaters, Scan!UpdateBleState(t)
      PROVE  DiscoveryInv'
  BY <1>3, RestartersAssumption
    DEF Scan!UpdateBleState, Scan!Wanted, Scan!Readable, Scan!Goes, Scan!scanVars, Scan!heardVars,
        Scan!outside, Scan!Threads, Scan!Updaters, Scan!Busy, Returns, At, To, DiscoveryInv,
        PowerInv, AloneInv, ScanTypes, Updating, Restarting, ScanInv
<1>4. ASSUME NEW t \in Scan!Updaters, Scan!SetStarted(t)
      PROVE  DiscoveryInv'
  BY SMT, ZenonT(60), <1>4, RestartersAssumption
    DEF Scan!SetStarted, Scan!Goes, Scan!heardVars, Scan!outside, Scan!Threads, Scan!Updaters,
        Scan!Busy, Returns, At, To, DiscoveryInv, PowerInv, AloneInv, ScanTypes, Updating,
        Restarting, ScanInv
<1>5. ASSUME NEW t \in Scan!Updaters, Scan!ScanUndesired(t)
      PROVE  DiscoveryInv'
  BY <1>5, RestartersAssumption
    DEF Scan!ScanUndesired, Scan!Goes, Scan!heardVars, Scan!outside, Scan!Threads, Scan!Updaters,
        Scan!Busy, Returns, At, To, DiscoveryInv, PowerInv, AloneInv, ScanTypes, Updating,
        Restarting, ScanInv
<1>6. ASSUME NEW t \in Scan!Updaters, Scan!StopListening(t)
      PROVE  DiscoveryInv'
  BY <1>6, RestartersAssumption
    DEF Scan!StopListening, Scan!Goes, Scan!scanVars, Scan!outside, Scan!Threads, Scan!Updaters,
        Scan!Busy, Returns, At, To, DiscoveryInv, PowerInv, AloneInv, ScanTypes, Updating,
        Restarting, ScanInv
<1>7. ASSUME NEW t \in Scan!Updaters, Scan!StopHearing(t)
      PROVE  DiscoveryInv'
  BY <1>7, RestartersAssumption
    DEF Scan!StopHearing, Scan!Goes, Scan!scanVars, Scan!outside, Scan!Threads, Scan!Updaters,
        Scan!Busy, Returns, At, To, DiscoveryInv, PowerInv, AloneInv, ScanTypes, Updating,
        Restarting, ScanInv
<1>8. ASSUME NEW t \in Scan!Updaters, Scan!StopDiscoveryAsync(t)
      PROVE  DiscoveryInv'
  BY <1>8, RestartersAssumption
    DEF Scan!StopDiscoveryAsync, Scan!Goes, Scan!heardVars, Scan!outside, Scan!Threads,
        Scan!Updaters, Scan!Busy, Returns, At, To, DiscoveryInv, PowerInv, AloneInv, ScanTypes,
        Updating, Restarting, ScanInv
<1>9. ASSUME NEW t \in Scan!Threads, Scan!ListenUnsubscribes(t)
      PROVE  DiscoveryInv'
  BY <1>9, RestartersAssumption
    DEF Scan!ListenUnsubscribes, Scan!Goes, Scan!scanVars, Scan!outside, Scan!Threads,
        Scan!Updaters, Scan!Busy, Returns, At, To, DiscoveryInv, PowerInv, AloneInv, ScanTypes,
        Updating, Restarting, ScanInv
<1>10. ASSUME NEW t \in Scan!Threads, Scan!ListenSubscribes(t)
      PROVE  DiscoveryInv'
  BY <1>10, RestartersAssumption
    DEF Scan!ListenSubscribes, Scan!Goes, Scan!Ids, Scan!scanVars, Scan!outside, Scan!Threads,
        Scan!Updaters, Scan!Busy, Returns, At, To, DiscoveryInv, PowerInv, AloneInv, ScanTypes,
        Updating, Restarting, ScanInv
<1>11. ASSUME NEW t \in Scan!Threads, Scan!StartDiscovery(t)
      PROVE  DiscoveryInv'
  <2>1. /\ scanPc[t] = "discover" /\ scanPc' = [scanPc EXCEPT ![t] = "desire"]
        /\ UNCHANGED <<started, desired, powered, signals, scanExcused>> /\ discovering' = powered
    BY <1>11 DEF Scan!StartDiscovery, Scan!Goes, Scan!heardVars, Scan!outside
  <2>2. scanPc'[t] = "desire"
    BY <2>1 DEF ScanInv, ScanTypes
  <2>3. t \in Scan!Updaters \/ (t \in Restarters /\ (scanExcused = {} => desired))
    BY <2>1 DEF ScanInv, AloneInv, Scan!Threads, Restarts
  <2> QED
    BY <2>1, <2>2, <2>3 DEF DiscoveryInv, To, At, Returns
<1>12. ASSUME NEW t \in Scan!Threads, Scan!ScanDesired(t)
      PROVE  DiscoveryInv'
  BY <1>12, RestartersAssumption
    DEF Scan!ScanDesired, Scan!Goes, Scan!Updaters, Scan!heardVars, Scan!outside, Scan!Threads,
        Scan!Busy, Returns, At, To, DiscoveryInv, PowerInv, AloneInv, ScanTypes, Updating,
        Restarting, ScanInv
<1>13. ASSUME NEW r \in Restarters, Scan!RestartWakes(r)
      PROVE  DiscoveryInv'
  BY <1>13, RestartersAssumption
    DEF Scan!RestartWakes, Scan!Goes, Scan!scanVars, Scan!heardVars, Scan!outside, Scan!Threads,
        Scan!Updaters, Scan!Busy, Returns, At, To, DiscoveryInv, PowerInv, AloneInv, ScanTypes,
        Updating, Restarting, ScanInv
<1>14. CASE Scan!PowerChanges
  BY <1>14, RestartersAssumption
    DEF Scan!PowerChanges, Scan!Count, Scan!heardVars, Scan!Threads, Scan!Updaters, Scan!Busy,
        Returns, At, To, DiscoveryInv, PowerInv, AloneInv, ScanTypes, Updating, Restarting,
        ScanInv
<1>15. CASE Scan!OnAdapterPowerChanged
  <2> SUFFICES ASSUME scanExcused' = {} PROVE DiscoveryInv'
    BY DEF DiscoveryInv
  <2>1. /\ UNCHANGED <<desired, discovering, powered>> /\ scanExcused = {}
        /\ scanPc["dbus"] = "idle" /\ scanPc["server"] = "idle"
    BY <1>15, PowerHandled
  <2>2. DiscoveryInv /\ (signals # <<>> => Last(signals) = powered)
    BY DEF ScanInv, PowerInv
  <2>3. CASE scanPc' = scanPc /\ ~(signals[1] /\ desired)
    <3>1. At({"desire"}) => desired
      BY <2>1 DEF At, Scan!Threads, Scan!Updaters, ScanInv, AloneInv, Restarts
    <3>2. powered /\ desired => signals' # <<>>
      BY <1>15, <2>2, <2>3, PowerHandled
    <3> QED
      BY <1>15, <2>1, <2>2, <2>3, <3>1, <3>2, PowerHandled DEF DiscoveryInv, Returns, At, To
  <2>4. CASE \E r \in Restarters :
                /\ desired /\ scanPc[r] = "idle" /\ scanPc' = [scanPc EXCEPT ![r] = "sleep"]
                /\ scanExcused' = {} => \A t \in Scan!Threads : t # r => scanPc[t] = "idle"
    BY <1>15, <2>1, <2>2, <2>4, PowerHandled, RestartersAssumption
       DEF ScanInv, DiscoveryInv, PowerInv, AloneInv, ScanTypes, Updating, Restarting,
           Scan!Threads, Scan!Updaters, Returns, To, At
  <2> QED
    BY <1>15, <2>3, <2>4, PowerHandled
<1>16. CASE Scan!FindsDevice
  BY <1>16, RestartersAssumption
    DEF Scan!FindsDevice, Scan!Count, Scan!Goes, Scan!Notes, Scan!scanVars, Scan!heardVars,
        Scan!Overlaps, Scan!Busy, Scan!Threads, Scan!Updaters, Returns, At, To, DiscoveryInv,
        PowerInv, AloneInv, ScanTypes, Updating, Restarting, ScanInv
<1>17. CASE Scan!OnDeviceAdded
  BY <1>17, RestartersAssumption
    DEF Scan!OnDeviceAdded, Scan!Goes, Scan!scanVars, Scan!outside, Scan!Threads, Scan!Updaters,
        Scan!Busy, Returns, At, To, DiscoveryInv, PowerInv, AloneInv, ScanTypes, Updating,
        Restarting, ScanInv
<1>18. CASE Scan!Remember
  BY <1>18, RestartersAssumption
    DEF Scan!Remember, Scan!Goes, Scan!scanVars, Scan!outside, Scan!Threads, Scan!Updaters,
        Scan!Busy, Returns, At, To, DiscoveryInv, PowerInv, AloneInv, ScanTypes, Updating,
        Restarting, ScanInv
<1>19. CASE Scan!LosesDevice
  BY <1>19, RestartersAssumption
    DEF Scan!LosesDevice, Scan!scanVars, Scan!outside, Scan!Threads, Scan!Updaters, Scan!Busy,
        Returns, At, To, DiscoveryInv, PowerInv, AloneInv, ScanTypes, Updating, Restarting,
        ScanInv
<1>20. CASE UNCHANGED Scan!vars
  BY <1>20
    DEF Scan!vars, Scan!scanVars, Scan!heardVars, Scan!outside, Returns, At, To, DiscoveryInv,
        PowerInv, AloneInv, ScanTypes, Updating, Restarting, ScanInv, Scan!Threads, Scan!Updaters,
        Scan!Busy
<1>21. ASSUME NEW t \in Scan!Threads, Scan!StartDiscoveryFails(t)
      PROVE  DiscoveryInv'
  BY <1>21, RestartersAssumption
    DEF Scan!StartDiscoveryFails, Scan!Goes, Scan!heardVars, Scan!outside, Scan!Threads,
        Scan!Updaters, Scan!Busy, Returns, At, To, Restarts, DiscoveryInv, PowerInv, AloneInv,
        ScanTypes, Updating, Restarting, ScanInv
<1> QED
  BY <1>1, <1>2, <1>3, <1>4, <1>5, <1>6, <1>7, <1>8, <1>9, <1>10, <1>11, <1>12, <1>13, <1>14,
     <1>15, <1>16, <1>17, <1>18, <1>19, <1>20, <1>21
    DEF Scan!Next, Scan!Updater, Scan!Listening, Scan!Stopping

LEMMA ScanInvariance == Scan!Spec => []ScanInv
<1>1. Scan!Init => ScanInv
  <2> SUFFICES ASSUME Scan!Init PROVE ScanInv
    OBVIOUS
  <2>1. \A t \in Scan!Threads : scanPc[t] = IF t = "dbus" THEN "update" ELSE "idle"
    BY DEF Scan!Init
  <2>2. ScanTypes
    <3>1. /\ scanPc = [t \in Scan!Threads |-> IF t = "dbus" THEN "update" ELSE "idle"]
          /\ listeners = {} /\ field = 0 /\ signals = <<>> /\ scanExcused = {}
          /\ setting \in {"on", "off", "other"} /\ apple \in BOOLEAN /\ powered \in BOOLEAN
          /\ scanFailed = FALSE /\ started = FALSE /\ desired = FALSE
          /\ discovering = FALSE /\ entry = FALSE
      BY DEF Scan!Init
    <3>2. scanPc \in [Scan!Threads -> Updating \cup {"idle", "sleep", "added", "remember"}]
      BY <3>1 DEF Updating
    <3>3. /\ \A r \in Restarters : scanPc[r] = "idle"
          /\ scanPc["server"] = "idle" /\ scanPc["dbus"] = "update"
      BY RestartersAssumption, <2>1 DEF Scan!Threads, Scan!Updaters
    <3>4. signals \in Seq(BOOLEAN)
      BY <3>1
    <3>5. "update" \in Updating
      BY DEF Updating
    <3> QED
      BY <3>1, <3>2, <3>3, <3>4, <3>5 DEF ScanTypes
  <2>3. HeardOnceInv /\ PowerInv
    BY <2>1 DEF HeardOnceInv, PowerInv, Scan!Init, Scan!Threads, Scan!Updaters
  <2>4. UpdateInv /\ AloneInv
    BY RestartersAssumption, <2>1
      DEF UpdateInv, AloneInv, To, Restarts, Scan!Busy, Scan!Init, Scan!Threads, Scan!Updaters,
          Updating
  <2>5. ListenersInv /\ DiscoveryInv
    BY RestartersAssumption, <2>1
      DEF ListenersInv, DiscoveryInv, At, To, Restarts, Scan!Init, Scan!Threads, Scan!Updaters,
          Updating
  <2> QED
    BY <2>2, <2>3, <2>4, <2>5 DEF ScanInv
<1>2. ScanInv /\ [Scan!Next]_Scan!vars => ScanInv'
  BY ScanTypesStep, HeardOnceStep, PowerStep, UpdateStep, AloneStep, ListenersStep, DiscoveryStep
    DEF ScanInv
<1> QED
  BY <1>1, <1>2, PTL DEF Scan!Spec

\* Once every change of the setting, the headphones and the adapter's power has been handled,
\* the scan runs if and only if it should, with one subscription, and a device is heard once:
\* UpdateBleState(), StartScan(), StopScan() and OnAdapterPowerChanged(), whatever number of
\* restart threads there are, however often anything changes and calls to BlueZ fail.
THEOREM ScanIsFollowed == PartSpec => []ScanFollows
<1>1. ScanInv => ScanFollows
  <2> SUFFICES ASSUME ScanInv PROVE Scan!TypeOK /\ Scan!ScanFollows
    BY DEF ScanFollows
  <2>1. Scan!TypeOK
    <3>1. heard \in 0..(MaxChanges + 1)
      BY BoundsAssumption DEF ScanInv, HeardOnceInv
    <3> QED
      BY <3>1 DEF ScanInv, ScanTypes, Scan!TypeOK
  <2> SUFFICES ASSUME Scan!AtRest PROVE Scan!ScanFollows
    BY <2>1 DEF Scan!ScanFollows
  <2>2. \A t \in Scan!Threads : scanPc[t] = "idle"
    BY DEF Scan!AtRest
  <2>3. /\ ~To(Updating) /\ ~To(Updating \ {"update"}) /\ ~Restarts
        /\ \A phase : "idle" \notin phase => ~At(phase) /\ ~To(phase)
    BY <2>2 DEF To, At, Restarts, Updating, Scan!Threads, Scan!Updaters
  <2>4. "update" \notin scanExcused /\ Scan!Readable =>
            (started => Scan!Wanted) /\ (Scan!Wanted => started \/ scanFailed)
    BY <2>3 DEF ScanInv, UpdateInv
  <2>5. ASSUME scanExcused = {}
        PROVE  /\ desired = started
               /\ listeners = (IF field # 0 THEN {field} ELSE {})
               /\ started \/ entry => field # 0
               /\ heard = (IF entry THEN 1 ELSE 0)
               /\ ~scanFailed => discovering = (started /\ powered) /\ (field # 0 <=> started)
    <3>1. desired = started
      BY <2>3, <2>5 DEF ScanInv, AloneInv
    <3>2. /\ field # 0 => started \/ scanFailed
          /\ listeners = IF field # 0 THEN {field} ELSE {}
          /\ started \/ entry => field # 0
      BY <2>3, <2>5 DEF ScanInv, ListenersInv
    <3>3. heard = IF entry THEN 1 ELSE 0
      BY <2>2 DEF ScanInv, HeardOnceInv, Scan!Threads, Scan!Updaters
    <3>4. ~scanFailed => (discovering <=> started /\ powered)
      <4>1. discovering => desired \/ scanFailed
        BY <2>3, <2>5 DEF ScanInv, DiscoveryInv
      <4>2. discovering => powered
        BY DEF ScanInv, PowerInv
      <4>3. desired /\ powered => discovering \/ scanFailed
        BY <2>2, <2>5 DEF ScanInv, DiscoveryInv, Returns, Scan!AtRest, Scan!Threads
      <4> QED
        BY <3>1, <4>1, <4>2, <4>3
    <3>5. discovering \in BOOLEAN /\ started \in BOOLEAN /\ powered \in BOOLEAN
      BY DEF ScanInv, ScanTypes
    <3> QED
      BY <3>1, <3>2, <3>3, <3>4, <3>5
  <2> QED
    BY <2>4, <2>5 DEF Scan!ScanFollows
<1> QED
  BY <1>1, ScanInvariance, PartsOfPeriphery, PTL

(***************************************************************************)
(* The animation: AppAnimationCapability.                                  *)
(***************************************************************************)
\* Keys, messages and what is shown.
KeyPairs(n) == [irk : 0..n, enc : 0..n]
Fires == [pc : {"idle", "decided", "built"}, data : Animation!Data, connected : BOOLEAN]
AnimationTypes ==
    /\ keys \in 1..(MaxKeys + 1) /\ irk \in 0..keys /\ enc \in 0..keys
    /\ keyFile \in KeyPairs(keys) /\ reader \in {"idle", "irk", "enc"}
    /\ online \in BOOLEAN /\ hasColor \in BOOLEAN
    /\ mac \in Addresses \cup {Animation!None}
    /\ cached \in Animation!Data /\ last \in Animation!Data
    /\ color \in {Animation!None, "white", "black"}
    /\ fire \in [Animation!Threads -> Fires]
    /\ shown \in [data : Animation!Data, connected : BOOLEAN]
    /\ heardOf \in [Addresses -> Animation!Data]
    /\ order \in Seq(Animation!Threads)

\* What the capability knows is what the headphones have said.
SaidInv ==
    /\ mac # Animation!None <=> last.animation
    /\ mac # Animation!None <=> cached.animation
    /\ mac # Animation!None => cached = heardOf[mac]
    /\ hasColor <=> color # Animation!None

\* A thread is once in the order, for as long as it has something to tell.
OrderInv ==
    /\ \A i \in 1..Len(order) : fire[order[i]].pc # "idle"
    /\ \A i, j \in 1..Len(order) : order[i] = order[j] => i = j

\* The last to decide tells what the capability knows, and nobody after it, unless a later one
\* has told before.
Current(data, isConnected) == data = cached /\ (data.animation => isConnected = online)
ToldInv ==
    /\ order # <<>> =>
           \/ Last(order) \in late
           \/ LET message == fire[Last(order)] IN
                  message.data = cached
                      /\ (message.pc = "built" => Current(message.data, message.connected))
    /\ order = <<>> => "shown" \in late \/ Current(shown.data, shown.connected)
AnimationInv == AnimationTypes /\ SaidInv /\ OrderInv /\ ToldInv

LEMMA Removed ==
    ASSUME NEW S, NEW stream \in Seq(S), NEW i \in 1..Len(stream)
    PROVE  /\ Animation!RemoveAt(stream, i) \in Seq(S) /\ Len(stream) \in Nat
           /\ Len(Animation!RemoveAt(stream, i)) = Len(stream) - 1
           /\ \A j \in 1..(Len(stream) - 1) :
                  Animation!RemoveAt(stream, i)[j] = stream[IF j < i THEN j ELSE j + 1]
<1> DEFINE head == SubSeq(stream, 1, i - 1)
           rest == SubSeq(stream, i + 1, Len(stream))
<1>1. /\ head \in Seq(S) /\ Len(head) = i - 1 /\ \A j \in 1..(i - 1) : head[j] = stream[j]
  OBVIOUS
<1>2. /\ rest \in Seq(S) /\ Len(rest) = Len(stream) - i
      /\ \A j \in 1..(Len(stream) - i) : rest[j] = stream[i + j]
  OBVIOUS
<1>3. Animation!RemoveAt(stream, i) = head \o rest
  BY DEF Animation!RemoveAt
<1> HIDE DEF head, rest
<1>4. /\ head \o rest \in Seq(S) /\ Len(head \o rest) = Len(stream) - 1
      /\ Len(stream) \in Nat
  <2>1. head \o rest \in Seq(S) /\ Len(head \o rest) = Len(head) + Len(rest)
    BY <1>1, <1>2, ConcatProperties
  <2>2. i \in Int /\ Len(stream) \in Nat
    OBVIOUS
  <2> QED
    BY <1>1, <1>2, <2>1, <2>2
<1>5. ASSUME NEW j \in 1..(Len(stream) - 1)
      PROVE  (head \o rest)[j] = stream[IF j < i THEN j ELSE j + 1]
  <2>0. /\ i \in Int /\ Len(stream) \in Nat /\ j \in 1..(Len(head) + Len(rest))
        /\ (head \o rest)[j] = IF j <= Len(head) THEN head[j] ELSE rest[j - Len(head)]
    BY <1>1, <1>2, ConcatProperties
  <2>1. CASE j < i
    BY <1>1, <2>0, <2>1
  <2>2. CASE j >= i
    BY <1>1, <1>2, <2>0, <2>2
  <2> QED
    BY <2>0, <2>1, <2>2
<1> QED
  BY <1>3, <1>4, <1>5

\* What a decision does.
LEMMA Decided ==
    ASSUME AnimationInv, NEW t \in Animation!Threads, NEW data \in Animation!Data,
           Animation!Decides(t, data)
    PROVE  /\ fire' \in [Animation!Threads -> Fires]
           /\ order' \in Seq(Animation!Threads) /\ order' # <<>> /\ Last(order') = t
           /\ Len(order) \in Nat /\ Len(order') = Len(order) + 1 /\ order'[Len(order) + 1] = t
           /\ \A i \in 1..Len(order) : order'[i] = order[i] /\ order[i] \in Animation!Threads
           /\ fire'[t].pc = "decided" /\ fire'[t].data = data
           /\ \A u \in Animation!Threads : u # t => fire'[u] = fire[u]
           /\ shown' = shown /\ late' = late
<1> DEFINE message == [Animation!Idle EXCEPT !.pc = "decided", !.data = data]
<1>1. /\ message \in Fires /\ message.pc = "decided" /\ message.data = data
  BY DEF Animation!Idle, Animation!Nothing, Fires, Animation!Data
<1>2. /\ fire \in [Animation!Threads -> Fires] /\ order \in Seq(Animation!Threads)
      /\ fire' = [fire EXCEPT ![t] = message] /\ order' = Append(order, t)
      /\ shown' = shown /\ late' = late
  BY DEF Animation!Decides, AnimationInv, AnimationTypes
<1> HIDE DEF message
<1>3. /\ fire' \in [Animation!Threads -> Fires] /\ fire'[t] = message
      /\ \A u \in Animation!Threads : u # t => fire'[u] = fire[u]
  BY <1>1, <1>2
<1> QED
  BY <1>1, <1>2, <1>3, Appended

LEMMA DecidedOrder ==
    ASSUME AnimationInv, NEW t \in Animation!Threads, NEW data \in Animation!Data,
           Animation!Decides(t, data), fire[t].pc = "idle"
    PROVE  OrderInv'
<1>1. \A i \in 1..Len(order) : order[i] # t
  BY DEF AnimationInv, OrderInv
<1>2. /\ \A i \in 1..Len(order) : fire[order[i]].pc # "idle"
      /\ \A i, j \in 1..Len(order) : order[i] = order[j] => i = j
  BY DEF AnimationInv, OrderInv
<1>3. ASSUME NEW i \in 1..Len(order')
      PROVE  fire'[order'[i]].pc # "idle"
  <2>1. CASE i = Len(order) + 1
    BY <2>1, Decided
  <2>2. CASE i # Len(order) + 1
    BY <1>1, <1>2, <2>2, Decided
  <2> QED BY <2>1, <2>2
<1>4. ASSUME NEW i \in 1..Len(order'), NEW j \in 1..Len(order'), order'[i] = order'[j]
      PROVE  i = j
  BY <1>1, <1>2, <1>4, Decided
<1> QED
  BY <1>3, <1>4 DEF OrderInv

LEMMA DecidedTold ==
    ASSUME AnimationInv, NEW t \in Animation!Threads, NEW data \in Animation!Data,
           Animation!Decides(t, data), cached' = data
    PROVE  ToldInv'
BY Decided DEF ToldInv

\* What an advertisement does: nothing, or it is decided what to show.
LEMMA Advertised ==
    ASSUME AnimationInv, NEW a \in Addresses, Animation!OnLeData(a)
    PROVE  /\ online' = online /\ a \in Animation!Threads /\ fire[a].pc = "idle"
           /\ \/ UNCHANGED <<cached, fire, shown, order, late>>
              \/ \E data \in Animation!Data : Animation!Decides(a, data) /\ cached' = data
<1>1. PICK animation \in BOOLEAN, l \in Levels :
          LET data == Animation!ParseBle(animation, l, keys) IN
          IF irk # 0 /\ enc # 0 /\ Animation!VerifyRPA(keys)
          THEN Animation!Receives(a, data)
          ELSE UNCHANGED <<Animation!showVars, Animation!tellVars>>
  BY DEF Animation!OnLeData
<1> DEFINE data == Animation!ParseBle(animation, l, keys)
<1>2. data \in Animation!Data
  BY DEF Animation!ParseBle, Animation!Data
<1>3. CASE Animation!Receives(a, data)
  BY <1>2, <1>3
     DEF Animation!Receives, Animation!showVars, Animation!tellVars, Animation!OnLeData,
         Animation!Threads
<1>4. CASE UNCHANGED <<Animation!showVars, Animation!tellVars>>
  BY <1>4
     DEF Animation!showVars, Animation!tellVars, Animation!OnLeData, Animation!Threads
<1> QED
  BY <1>1, <1>3, <1>4

\* Keys are of a generation there is, and messages messages.
LEMMA AnimationTypesStep == AnimationInv /\ [Animation!Next]_Animation!vars => AnimationTypes'
<1> SUFFICES ASSUME AnimationInv, [Animation!Next]_Animation!vars PROVE AnimationTypes'
  OBVIOUS
<1>1. ASSUME NEW a \in Addresses, Animation!OnLeData(a)
      PROVE  AnimationTypes'
  <2>1. fire' \in [Animation!Threads -> Fires] /\ order' \in Seq(Animation!Threads)
        /\ shown' = shown
    BY <1>1, Advertised, Decided DEF AnimationInv, AnimationTypes
  <2>2. PICK animation \in BOOLEAN, l \in Levels :
            LET data == Animation!ParseBle(animation, l, keys) IN
            IF irk # 0 /\ enc # 0 /\ Animation!VerifyRPA(keys)
            THEN /\ Animation!Receives(a, data)
                 /\ last' = data /\ heardOf' = [heardOf EXCEPT ![a] = data]
            ELSE UNCHANGED <<Animation!showVars, last, heardOf>>
    BY <1>1 DEF Animation!OnLeData
  <2> DEFINE data == Animation!ParseBle(animation, l, keys)
  <2>3. data \in Animation!Data
    BY DEF Animation!ParseBle, Animation!Data
  <2>4. last' \in Animation!Data /\ heardOf' \in [Addresses -> Animation!Data]
    BY <2>2, <2>3 DEF AnimationInv, AnimationTypes
  <2>5. /\ mac' \in Addresses \cup {Animation!None} /\ cached' \in Animation!Data
        /\ hasColor' \in BOOLEAN /\ color' \in {Animation!None, "white", "black"}
    BY <2>2, <2>3
       DEF Animation!Receives, Animation!showVars, Animation!Shows, AnimationInv, AnimationTypes
  <2>6. UNCHANGED <<keys, irk, enc, keyFile, reader, online>>
    BY <1>1 DEF Animation!OnLeData, Animation!keyVars
  <2> QED
    BY <2>1, <2>4, <2>5, <2>6 DEF AnimationInv, AnimationTypes
<1>2. ASSUME NEW t \in Animation!Threads, Animation!Builds(t)
      PROVE  AnimationTypes'
  <2>1. fire' = [fire EXCEPT ![t].pc = "built", ![t].connected = online]
    BY <1>2 DEF Animation!Builds
  <2>2. fire' \in [Animation!Threads -> Fires]
    BY <2>1 DEF Fires, AnimationInv, AnimationTypes
  <2> QED
    BY <1>2, <2>2 DEF Animation!Builds, Animation!keyVars, Animation!showVars,
       Animation!historyVars, AnimationInv, AnimationTypes
<1>3. ASSUME NEW t \in Animation!Threads, Animation!FireAnimation(t)
      PROVE  AnimationTypes'
  <2>1. PICK i \in 1..Len(order) : order' = Animation!RemoveAt(order, i)
    BY <1>3 DEF Animation!FireAnimation
  <2>2. order' \in Seq(Animation!Threads)
    BY <2>1, Removed DEF AnimationInv, AnimationTypes
  <2>3. fire' \in [Animation!Threads -> Fires]
    BY <1>3 DEF Animation!FireAnimation, Animation!Idle, Animation!Nothing, Animation!Data, Fires,
       AnimationInv, AnimationTypes
  <2>4. shown' \in [data : Animation!Data, connected : BOOLEAN]
    BY <1>3 DEF Animation!FireAnimation, Animation!Told, Fires, AnimationInv, AnimationTypes
  <2> QED
    BY <1>3, <2>2, <2>3, <2>4 DEF Animation!FireAnimation, Animation!keyVars, Animation!showVars,
       Animation!historyVars, AnimationInv, AnimationTypes
<1>4. CASE Animation!OnConnected
  <2>1. /\ cached \in Animation!Data /\ Animation!Connection \in Animation!Threads
        /\ \/ Animation!Decides(Animation!Connection, cached)
           \/ UNCHANGED <<fire, shown, order, late>>
    BY <1>4 DEF Animation!OnConnected, Animation!tellVars, Animation!Threads, AnimationInv,
       AnimationTypes
  <2>2. fire' \in [Animation!Threads -> Fires] /\ order' \in Seq(Animation!Threads)
        /\ shown' = shown
    BY <2>1, Decided DEF AnimationInv, AnimationTypes
  <2> QED
    BY <1>4, <2>2 DEF Animation!OnConnected, Animation!keyVars, Animation!showVars, AnimationInv,
       AnimationTypes
<1>5. CASE Animation!NewKeys
  BY <1>5, AddressesAssumption, BoundsAssumption
    DEF Animation!NewKeys, Animation!showVars, Animation!tellVars, Animation!historyVars,
        Animation!Threads, Animation!None, Animation!Connection, Animation!Data,
        Animation!Nothing, KeyPairs, Fires, AnimationTypes, AnimationInv
<1>6. CASE Animation!ReceivesKeys
  BY <1>6, AddressesAssumption, BoundsAssumption
    DEF Animation!ReceivesKeys, Animation!showVars, Animation!tellVars, Animation!historyVars,
        Animation!Threads, Animation!None, Animation!Connection, Animation!Data,
        Animation!Nothing, KeyPairs, Fires, AnimationTypes, AnimationInv
<1>7. CASE Animation!Restart
  BY <1>7, AddressesAssumption, BoundsAssumption
    DEF Animation!Restart, Animation!None, Animation!Nothing, Animation!Threads, Animation!Idle,
        Animation!Told, Animation!Connection, Animation!Data, KeyPairs, Fires, AnimationTypes,
        AnimationInv
<1>8. CASE UNCHANGED Animation!vars
  BY <1>8
    DEF Animation!vars, Animation!keyVars, Animation!showVars, Animation!tellVars,
        Animation!historyVars, KeyPairs, Fires, AnimationTypes, AnimationInv, Animation!Threads,
        Animation!None, Animation!Connection, Animation!Data, Animation!Nothing
<1> QED
  BY <1>1, <1>2, <1>3, <1>4, <1>5, <1>6, <1>7, <1>8 DEF Animation!Next

\* The capability knows what the headphones have said.
LEMMA SaidStep == AnimationInv /\ [Animation!Next]_Animation!vars => SaidInv'
<1> SUFFICES ASSUME AnimationInv, [Animation!Next]_Animation!vars PROVE SaidInv'
  OBVIOUS
<1>1. ASSUME NEW a \in Addresses, Animation!OnLeData(a)
      PROVE  SaidInv'
  BY <1>1, AddressesAssumption, BoundsAssumption
    DEF Animation!OnLeData, Animation!ParseBle, Animation!VerifyRPA, Animation!Receives,
        Animation!showVars, Animation!tellVars, Animation!keyVars, Animation!Shows,
        Animation!Hides, Animation!Refreshes, Animation!None, Animation!Decides, Animation!Idle,
        Animation!Nothing, Animation!Threads, Animation!Connection, Animation!Data, SaidInv,
        AnimationTypes, AnimationInv
<1>2. ASSUME NEW t \in Animation!Threads, Animation!Builds(t)
      PROVE  SaidInv'
  BY <1>2, AddressesAssumption, BoundsAssumption
    DEF Animation!Builds, Animation!keyVars, Animation!showVars, Animation!historyVars,
        Animation!Threads, Animation!None, Animation!Connection, Animation!Data,
        Animation!Nothing, SaidInv, AnimationTypes, AnimationInv
<1>3. ASSUME NEW t \in Animation!Threads, Animation!FireAnimation(t)
      PROVE  SaidInv'
  BY <1>3, AddressesAssumption, BoundsAssumption
    DEF Animation!FireAnimation, Animation!Told, Animation!Idle, Animation!RemoveAt,
        Animation!keyVars, Animation!showVars, Animation!historyVars, Animation!Nothing,
        Animation!Threads, Animation!None, Animation!Connection, Animation!Data, SaidInv,
        AnimationTypes, AnimationInv
<1>4. CASE Animation!OnConnected
  BY <1>4, AddressesAssumption, BoundsAssumption
    DEF Animation!OnConnected, Animation!Connection, Animation!None, Animation!Decides,
        Animation!tellVars, Animation!keyVars, Animation!showVars, Animation!Idle,
        Animation!Nothing, Animation!Threads, Animation!Data, SaidInv, AnimationTypes,
        AnimationInv
<1>5. CASE Animation!NewKeys
  BY <1>5, AddressesAssumption, BoundsAssumption
    DEF Animation!NewKeys, Animation!showVars, Animation!tellVars, Animation!historyVars,
        Animation!Threads, Animation!None, Animation!Connection, Animation!Data,
        Animation!Nothing, SaidInv, AnimationTypes, AnimationInv
<1>6. CASE Animation!ReceivesKeys
  BY <1>6, AddressesAssumption, BoundsAssumption
    DEF Animation!ReceivesKeys, Animation!showVars, Animation!tellVars, Animation!historyVars,
        Animation!Threads, Animation!None, Animation!Connection, Animation!Data,
        Animation!Nothing, SaidInv, AnimationTypes, AnimationInv
<1>7. CASE Animation!Restart
  BY <1>7, AddressesAssumption, BoundsAssumption
    DEF Animation!Restart, Animation!None, Animation!Nothing, Animation!Threads, Animation!Idle,
        Animation!Told, Animation!Connection, Animation!Data, SaidInv, AnimationTypes,
        AnimationInv
<1>8. CASE UNCHANGED Animation!vars
  BY <1>8
    DEF Animation!vars, Animation!keyVars, Animation!showVars, Animation!tellVars,
        Animation!historyVars, SaidInv, AnimationTypes, AnimationInv, Animation!Threads,
        Animation!None, Animation!Connection, Animation!Data, Animation!Nothing
<1> QED
  BY <1>1, <1>2, <1>3, <1>4, <1>5, <1>6, <1>7, <1>8 DEF Animation!Next

\* Threads tell once what they have decided.
LEMMA OrderStep == AnimationInv /\ [Animation!Next]_Animation!vars => OrderInv'
<1> SUFFICES ASSUME AnimationInv, [Animation!Next]_Animation!vars PROVE OrderInv'
  OBVIOUS
<1>1. ASSUME NEW a \in Addresses, Animation!OnLeData(a)
      PROVE  OrderInv'
  <2>1. CASE UNCHANGED <<cached, fire, shown, order, late>>
    BY <1>1, <2>1, Advertised DEF AnimationInv, OrderInv
  <2>2. CASE \E data \in Animation!Data : Animation!Decides(a, data) /\ cached' = data
    BY <1>1, <2>2, Advertised, DecidedOrder
  <2> QED
    BY <1>1, <2>1, <2>2, Advertised
<1>2. ASSUME NEW t \in Animation!Threads, Animation!Builds(t)
      PROVE  OrderInv'
  BY <1>2, AddressesAssumption, BoundsAssumption
    DEF Animation!Builds, Animation!keyVars, Animation!showVars, Animation!historyVars,
        Animation!Threads, Animation!None, Animation!Connection, Animation!Data,
        Animation!Nothing, OrderInv, AnimationTypes, Fires, AnimationInv
<1>3. ASSUME NEW t \in Animation!Threads, Animation!FireAnimation(t)
      PROVE  OrderInv'
  <2>1. PICK i \in 1..Len(order) :
            /\ order[i] = t /\ order' = Animation!RemoveAt(order, i)
            /\ late' = (late \ {t, "shown"}) \cup (IF t \in late THEN {"shown"} ELSE {})
                          \cup {order[j] : j \in 1..(i - 1)}
    BY <1>3 DEF Animation!FireAnimation
  <2>2. /\ order \in Seq(Animation!Threads) /\ Len(order) \in Nat
        /\ order' \in Seq(Animation!Threads) /\ Len(order') = Len(order) - 1
        /\ \A j \in 1..(Len(order) - 1) : order'[j] = order[IF j < i THEN j ELSE j + 1]
    BY <2>1, Removed DEF AnimationInv, AnimationTypes
  <2>3. /\ \A j \in 1..Len(order) : fire[order[j]].pc # "idle" /\ order[j] \in Animation!Threads
        /\ \A j, k \in 1..Len(order) : order[j] = order[k] => j = k
    BY <2>2 DEF AnimationInv, OrderInv
  <2>4. /\ fire \in [Animation!Threads -> Fires] /\ fire' = [fire EXCEPT ![t] = Animation!Idle]
        /\ fire[t].pc = "built" /\ shown' = [data |-> fire[t].data, connected |-> fire[t].connected]
        /\ UNCHANGED <<cached, online>>
    BY <1>3 DEF Animation!FireAnimation, Animation!Told, Animation!showVars, AnimationInv,
             AnimationTypes
  <2>5. ASSUME NEW j \in 1..Len(order')
        PROVE  fire'[order'[j]].pc # "idle"
    <3> DEFINE k == IF j < i THEN j ELSE j + 1
    <3>1. k \in 1..Len(order) /\ k # i /\ order'[j] = order[k]
      BY <2>2
    <3>2. order[k] # t /\ order[k] \in Animation!Threads /\ fire[order[k]].pc # "idle"
      BY <2>1, <2>3, <3>1
    <3> QED
      BY <2>4, <3>1, <3>2
  <2>6. ASSUME NEW j \in 1..Len(order'), NEW k \in 1..Len(order'), order'[j] = order'[k]
        PROVE  j = k
    <3>1. order[IF j < i THEN j ELSE j + 1] = order[IF k < i THEN k ELSE k + 1]
      BY <2>2, <2>6
    <3>2. /\ (IF j < i THEN j ELSE j + 1) \in 1..Len(order)
          /\ (IF k < i THEN k ELSE k + 1) \in 1..Len(order)
      BY <2>2
    <3> QED
      BY <2>2, <2>3, <3>1, <3>2
  <2> QED
    BY <2>5, <2>6 DEF OrderInv
<1>4. CASE Animation!OnConnected
  <2>1. cached \in Animation!Data /\ Animation!Connection \in Animation!Threads
    BY DEF Animation!Threads, AnimationInv, AnimationTypes
  <2>2. CASE Animation!Decides(Animation!Connection, cached)
    BY <1>4, <2>1, <2>2, DecidedOrder DEF Animation!OnConnected
  <2>3. CASE UNCHANGED Animation!tellVars
    BY <2>3 DEF Animation!tellVars, AnimationInv, OrderInv
  <2> QED
    BY <1>4, <2>2, <2>3 DEF Animation!OnConnected
<1>5. CASE Animation!NewKeys
  BY <1>5, AddressesAssumption, BoundsAssumption
    DEF Animation!NewKeys, Animation!showVars, Animation!tellVars, Animation!historyVars,
        Animation!Threads, Animation!None, Animation!Connection, Animation!Data,
        Animation!Nothing, OrderInv, AnimationTypes, Fires, AnimationInv
<1>6. CASE Animation!ReceivesKeys
  BY <1>6, AddressesAssumption, BoundsAssumption
    DEF Animation!ReceivesKeys, Animation!showVars, Animation!tellVars, Animation!historyVars,
        Animation!Threads, Animation!None, Animation!Connection, Animation!Data,
        Animation!Nothing, OrderInv, AnimationTypes, Fires, AnimationInv
<1>7. CASE Animation!Restart
  BY <1>7, AddressesAssumption, BoundsAssumption
    DEF Animation!Restart, Animation!None, Animation!Nothing, Animation!Threads, Animation!Idle,
        Animation!Told, Animation!Connection, Animation!Data, OrderInv, AnimationTypes, Fires,
        AnimationInv
<1>8. CASE UNCHANGED Animation!vars
  BY <1>8
    DEF Animation!vars, Animation!keyVars, Animation!showVars, Animation!tellVars,
        Animation!historyVars, OrderInv, AnimationTypes, Fires, AnimationInv, Animation!Threads,
        Animation!None, Animation!Connection, Animation!Data, Animation!Nothing
<1> QED
  BY <1>1, <1>2, <1>3, <1>4, <1>5, <1>6, <1>7, <1>8 DEF Animation!Next

\* What is told last is what the capability knows.
LEMMA ToldStep == AnimationInv /\ [Animation!Next]_Animation!vars => ToldInv'
<1> SUFFICES ASSUME AnimationInv, [Animation!Next]_Animation!vars PROVE ToldInv'
  OBVIOUS
<1>1. ASSUME NEW a \in Addresses, Animation!OnLeData(a)
      PROVE  ToldInv'
  <2>1. CASE UNCHANGED <<cached, fire, shown, order, late>>
    BY <1>1, <2>1, Advertised DEF AnimationInv, ToldInv, Current
  <2>2. CASE \E data \in Animation!Data : Animation!Decides(a, data) /\ cached' = data
    BY <1>1, <2>2, Advertised, DecidedTold
  <2> QED
    BY <1>1, <2>1, <2>2, Advertised
<1>2. ASSUME NEW t \in Animation!Threads, Animation!Builds(t)
      PROVE  ToldInv'
  <2>1. /\ fire \in [Animation!Threads -> Fires] /\ UNCHANGED <<cached, online, shown, order, late>>
        /\ fire' = [fire EXCEPT ![t].pc = "built", ![t].connected = online]
    BY <1>2 DEF Animation!Builds, Animation!showVars, AnimationInv, AnimationTypes
  <2>2. /\ fire'[t].data = fire[t].data /\ fire'[t].connected = online
        /\ \A u \in Animation!Threads : u # t => fire'[u] = fire[u]
    BY <2>1 DEF Fires
  <2>3. order # <<>> => Last(order) \in Animation!Threads
    BY Taken DEF Last, AnimationInv, AnimationTypes
  <2> QED
    BY <2>1, <2>2, <2>3 DEF AnimationInv, ToldInv, Current
<1>3. ASSUME NEW t \in Animation!Threads, Animation!FireAnimation(t)
      PROVE  ToldInv'
  <2>1. PICK i \in 1..Len(order) :
            /\ order[i] = t /\ order' = Animation!RemoveAt(order, i)
            /\ late' = (late \ {t, "shown"}) \cup (IF t \in late THEN {"shown"} ELSE {})
                          \cup {order[j] : j \in 1..(i - 1)}
    BY <1>3 DEF Animation!FireAnimation
  <2>2. /\ order \in Seq(Animation!Threads) /\ Len(order) \in Nat
        /\ order' \in Seq(Animation!Threads) /\ Len(order') = Len(order) - 1
        /\ \A j \in 1..(Len(order) - 1) : order'[j] = order[IF j < i THEN j ELSE j + 1]
    BY <2>1, Removed DEF AnimationInv, AnimationTypes
  <2>3. /\ \A j \in 1..Len(order) : fire[order[j]].pc # "idle" /\ order[j] \in Animation!Threads
        /\ \A j, k \in 1..Len(order) : order[j] = order[k] => j = k
    BY <2>2 DEF AnimationInv, OrderInv
  <2>4. /\ fire \in [Animation!Threads -> Fires] /\ fire' = [fire EXCEPT ![t] = Animation!Idle]
        /\ fire[t].pc = "built" /\ shown' = [data |-> fire[t].data, connected |-> fire[t].connected]
        /\ UNCHANGED <<cached, online>>
    BY <1>3 DEF Animation!FireAnimation, Animation!Told, Animation!showVars, AnimationInv,
             AnimationTypes
  <2>5. order # <<>> /\ (order' = <<>> <=> Len(order) = 1)
    <3>1. \A q \in Seq(Animation!Threads) : q = <<>> <=> Len(q) = 0
      OBVIOUS
    <3>2. order' = <<>> <=> Len(order') = 0
      BY <2>2, <3>1, Zenon
    <3> QED
      BY <2>2, <3>2
  <2>6. t \in late \/ t = "shown" <=> "shown" \in late'
    <3>1. \A j \in 1..(i - 1) : order[j] # "shown"
      BY <2>2, <2>3, AddressesAssumption DEF Animation!Threads, Animation!Connection
    <3>2. t # "shown"
      BY AddressesAssumption DEF Animation!Threads, Animation!Connection
    <3> QED
      BY <2>1, <3>1, <3>2
  <2>7. CASE i = Len(order)
    <3>1. Last(order) = t
      BY <2>1, <2>7 DEF Last
    <3>2. order' = <<>> => "shown" \in late' \/ Current(shown'.data, shown'.connected)
      BY <2>4, <2>5, <2>6, <3>1 DEF AnimationInv, ToldInv
    <3>3. ASSUME order' # <<>>
          PROVE  Last(order') \in late'
      <4>1. Len(order) > 1 /\ Len(order) - 1 \in 1..(i - 1)
        BY <2>2, <2>5, <2>7, <3>3
      <4>2. Last(order') = order[Len(order) - 1]
        BY <2>2, <2>7, <4>1 DEF Last
      <4> QED
        BY <2>1, <4>1, <4>2
    <3> QED
      BY <2>4, <3>2, <3>3 DEF ToldInv, Current
  <2>8. CASE i # Len(order)
    <3>1. /\ Len(order) > 1 /\ order' # <<>> /\ Last(order') = Last(order)
          /\ Last(order) \in Animation!Threads /\ Last(order) # t
      BY <2>1, <2>2, <2>3, <2>5, <2>8 DEF Last
    <3>2. Last(order) \in late => Last(order) \in late'
      BY <2>1, <3>1, AddressesAssumption DEF Animation!Threads, Animation!Connection
    <3>3. fire'[Last(order)] = fire[Last(order)]
      BY <2>4, <3>1
    <3> QED
      BY <2>4, <2>5, <3>1, <3>2, <3>3 DEF AnimationInv, ToldInv, Current
  <2> QED
    BY <2>7, <2>8
<1>4. CASE Animation!OnConnected
  <2>1. /\ cached \in Animation!Data /\ Animation!Connection \in Animation!Threads
        /\ cached' = cached
    BY <1>4 DEF Animation!OnConnected, Animation!showVars, Animation!Threads, AnimationInv,
             AnimationTypes
  <2>2. CASE Animation!Decides(Animation!Connection, cached)
    BY <2>1, <2>2, DecidedTold
  <2>3. CASE UNCHANGED Animation!tellVars /\ ~cached.animation
    BY <2>1, <2>3 DEF Animation!tellVars, AnimationInv, ToldInv, Current
  <2> QED
    BY <1>4, <2>2, <2>3 DEF Animation!OnConnected, AnimationInv, SaidInv
<1>5. CASE Animation!NewKeys
  BY <1>5, AddressesAssumption, BoundsAssumption
    DEF Animation!NewKeys, Animation!showVars, Animation!tellVars, Animation!historyVars,
        Animation!Threads, Animation!None, Animation!Connection, Animation!Data,
        Animation!Nothing, Current, ToldInv, SaidInv, OrderInv, AnimationTypes, Fires,
        AnimationInv
<1>6. CASE Animation!ReceivesKeys
  BY <1>6, AddressesAssumption, BoundsAssumption
    DEF Animation!ReceivesKeys, Animation!showVars, Animation!tellVars, Animation!historyVars,
        Animation!Threads, Animation!None, Animation!Connection, Animation!Data,
        Animation!Nothing, Current, ToldInv, SaidInv, OrderInv, AnimationTypes, Fires,
        AnimationInv
<1>7. CASE Animation!Restart
  BY <1>7, AddressesAssumption, BoundsAssumption
    DEF Animation!Restart, Animation!None, Animation!Nothing, Animation!Threads, Animation!Idle,
        Animation!Told, Animation!Connection, Animation!Data, Current, ToldInv, SaidInv, OrderInv,
        AnimationTypes, Fires, AnimationInv
<1>8. CASE UNCHANGED Animation!vars
  BY <1>8
    DEF Animation!vars, Animation!keyVars, Animation!showVars, Animation!tellVars,
        Animation!historyVars, Current, ToldInv, SaidInv, OrderInv, AnimationTypes, Fires,
        AnimationInv, Animation!Threads, Animation!None, Animation!Connection, Animation!Data,
        Animation!Nothing
<1> QED
  BY <1>1, <1>2, <1>3, <1>4, <1>5, <1>6, <1>7, <1>8 DEF Animation!Next

LEMMA AnimationInvariance == Animation!Spec => []AnimationInv
<1>1. Animation!Init => AnimationInv
  <2> SUFFICES ASSUME Animation!Init PROVE AnimationInv
    OBVIOUS
  <2>1. /\ Animation!Nothing \in Animation!Data
        /\ Animation!Nothing.animation = FALSE
        /\ Animation!Idle \in Fires
        /\ Animation!Told(Animation!Nothing, FALSE) \in [data : Animation!Data, connected : BOOLEAN]
        /\ Animation!Told(Animation!Nothing, FALSE).data = Animation!Nothing
    BY DEF Animation!Nothing, Animation!Data, Animation!Idle, Animation!Told, Fires
  <2>2. AnimationTypes
    <3>1. keys = 1 /\ keys \in 1..(MaxKeys + 1)
      BY BoundsAssumption DEF Animation!Init
    <3>2. keyFile \in KeyPairs(keys) /\ irk \in 0..keys /\ enc \in 0..keys
      BY <3>1 DEF Animation!Init, KeyPairs
    <3>3. /\ reader = "idle" /\ online = FALSE /\ mac = Animation!None
          /\ cached = Animation!Nothing /\ last = Animation!Nothing /\ order = <<>>
          /\ color \in {Animation!None, "white"} /\ hasColor \in BOOLEAN
          /\ shown = Animation!Told(Animation!Nothing, FALSE)
      BY DEF Animation!Init
    <3>4. fire \in [Animation!Threads -> Fires]
      BY <2>1 DEF Animation!Init
    <3>5. heardOf \in [Addresses -> Animation!Data]
      BY <2>1 DEF Animation!Init
    <3>6. order \in Seq(Animation!Threads)
      BY <3>3
    <3> QED
      BY <2>1, <3>1, <3>2, <3>3, <3>4, <3>5, <3>6 DEF AnimationTypes
  <2>3. SaidInv
    BY <2>1 DEF SaidInv, Animation!Init
  <2>4. OrderInv
    BY DEF OrderInv, Animation!Init
  <2>5. ToldInv
    <3>1. /\ order = <<>> /\ shown = Animation!Told(Animation!Nothing, FALSE)
          /\ cached = Animation!Nothing
      BY DEF Animation!Init
    <3> QED
      BY <2>1, <3>1 DEF ToldInv, Current
  <2> QED
    BY <2>2, <2>3, <2>4, <2>5 DEF AnimationInv
<1>2. AnimationInv /\ [Animation!Next]_Animation!vars => AnimationInv'
  BY AnimationTypesStep, SaidStep, OrderStep, ToldStep DEF AnimationInv
<1> QED
  BY <1>1, <1>2, PTL DEF Animation!Spec

\* What clients are shown is what the headphones have said last: OnLeData(), FireAnimation(),
\* OnConnected() and the keys of AppAnimationCapability, for every number of addresses.
THEOREM AnimationIsTrue == PartSpec => []AnimationTrue
<1>1. AnimationInv => AnimationTrue
  <2> SUFFICES ASSUME AnimationInv PROVE Animation!TypeOK /\ Animation!AnimationTrue
    BY DEF AnimationTrue
  <2>1. Animation!TypeOK
    BY DEF AnimationInv, AnimationTypes, KeyPairs, Fires, Animation!TypeOK
  <2>2. ASSUME Animation!Rest PROVE order = <<>>
    <3>1. \A i \in 1..Len(order) : order[i] \in Animation!Threads
      BY DEF AnimationInv, AnimationTypes
    <3>2. \A i \in 1..Len(order) : FALSE
      BY <2>2, <3>1 DEF AnimationInv, OrderInv, Animation!Rest
    <3> QED
      BY <3>2 DEF AnimationInv, AnimationTypes
  <2> QED
    BY <2>1, <2>2 DEF AnimationInv, SaidInv, ToldInv, Current, Animation!AnimationTrue
<1> QED
  BY <1>1, AnimationInvariance, PartsOfPeriphery, PTL

(***************************************************************************)
(* The settings: SettingsService.                                          *)
(***************************************************************************)
\* Settings by container and name: two tables have the same, or one has what the other has.
Has(table, c, n) == Settings!Holds(table, c, n)
Value(table, c, n) == table[c][n]
Named(n) == n # ""
Agree(table, other, c, n) ==
    /\ Has(table, c, n) <=> Has(other, c, n)
    /\ Has(table, c, n) => Value(other, c, n) = Value(table, c, n)
Keeps(table, other, c, n) ==
    Has(table, c, n) => Has(other, c, n) /\ Value(other, c, n) = Value(table, c, n)
Saves(t, c, n) ==
    saving[t] # Settings!Nothing /\ saving[t].container = c /\ saving[t].name = n
LogLevel == [container |-> Settings!Program, name |-> "logLevel"]
Begins == Settings!Starting /\ saver["server"] = "open"

StoreTypes ==
    /\ running \in BOOLEAN /\ refused \in BOOLEAN
    /\ level \in ValidLevels \cup {"debug"}
    /\ saveExcused \subseteq {"crash", "fails", "overlap", "full"}
    /\ saver \in [Settings!Threads -> {"idle", "open", "print", "close", "fire"}]
    /\ DOMAIN saving = Settings!Threads /\ DOMAIN text = Settings!Threads
    /\ \A t \in Settings!Threads :
           /\ saving[t].container \in Settings!Containers /\ Named(saving[t].name)
           /\ DOMAIN text[t] \subseteq Settings!Containers
    /\ file.kind \in {"text", "missing", "torn"}
    /\ DOMAIN memory \subseteq Settings!Containers
    /\ DOMAIN file.table \subseteq Settings!Containers

\* What is being saved is in memory, and so are the defaults; nothing is saved before the
\* program has started.
SavingInv ==
    /\ \A t \in Settings!Threads : saver[t] = "idle" => saving[t] = Settings!Nothing
    /\ saver["reader"] # "idle" =>
           saving["reader"] # Settings!Nothing /\ saving["reader"].container = "device"
    /\ Settings!Starting => saver["reader"] = "idle"
    /\ ~running => saver = Settings!AllIdle
    /\ running =>
           /\ \A t \in Settings!Threads : saving[t] # Settings!Nothing =>
                  Has(memory, saving[t].container, saving[t].name)
           /\ \A n \in {"animation", "logLevel"} : Has(memory, Settings!Program, n)

\* One thread at a time writes the file, and writes what is in memory but for what another has
\* yet to write.
Unsaved(c, n) == \E t \in Settings!Threads : saver[t] = "open" /\ Saves(t, c, n)
Written == \A t \in Settings!Threads : ~Settings!Writing(t)
WrittenInv ==
    saveExcused = {} =>
        /\ ~(Settings!Writing("server") /\ Settings!Writing("reader"))
        /\ file.kind # "torn" /\ ~refused
        /\ ~Written => file.table = Settings!Empty
        /\ \A t \in Settings!Threads : saver[t] = "close" =>
               \A c, n : Unsaved(c, n) \/ Agree(memory, text[t], c, n)
        /\ running /\ Written /\ ~Begins =>
               \A c, n : Unsaved(c, n) \/ Agree(memory, file.table, c, n)

\* What was told is in memory but for what is saved now, and survives the program in the file.
InFlight(c, n) == \E t \in Settings!Threads : saver[t] # "idle" /\ Saves(t, c, n)
KeptInv ==
    saveExcused = {} =>
        /\ ~running \/ Begins => \A c, n : Keeps(kept, file.table, c, n)
        /\ running => \A c, n : InFlight(c, n) \/ Keeps(kept, memory, c, n)

\* The logger has the level, but while it is saved.
NoneSaved ==
    /\ running
    /\ \A t \in Settings!Threads :
           saver[t] # "idle" => saving[t] \notin {Settings!Nothing, LogLevel}
LoggedInv ==
    saveExcused = {} /\ NoneSaved /\ Value(memory, Settings!Program, "logLevel") \in ValidLevels
        => level = Value(memory, Settings!Program, "logLevel")

StoreInv == StoreTypes /\ SavingInv /\ WrittenInv /\ KeptInv /\ LoggedInv

\* What containers are: those that are none are not tables, and tables have what they have.
LEMMA NotScalar ==
    ASSUME NEW table, NEW name \in DOMAIN table, Named(name)
    PROVE  table # Settings!Scalar
BY DEF Settings!Scalar, Named

LEMMA Contained ==
    ASSUME NEW table, NEW c, NEW n
    PROVE  /\ Has(table, c, n) <=> n \in DOMAIN Settings!Container(table, c)
           /\ Has(table, c, n) => Value(table, c, n) = Settings!Container(table, c)[n]
           /\ Settings!Empty # Settings!Scalar
<1>1. DOMAIN Settings!Empty = {}
  BY DEF Settings!Empty
<1>2. Settings!Empty # Settings!Scalar
  BY <1>1 DEF Settings!Scalar
<1> QED
  BY <1>1, <1>2 DEF Has, Value, Settings!Holds, Settings!Container, Settings!IsTable

\* A table with a setting in it has that setting and those it had.
LEMMA Inserted ==
    ASSUME NEW table, NEW c, NEW n, Named(n), NEW v, NEW d, NEW m
    PROVE  LET new == Settings!Insert(table, c, n, v) IN
           /\ Has(new, d, m) <=> (d = c /\ m = n) \/ Has(table, d, m)
           /\ d = c /\ m = n => Value(new, d, m) = v
           /\ ~(d = c /\ m = n) /\ Has(table, d, m) => Value(new, d, m) = Value(table, d, m)
<1> DEFINE new == Settings!Insert(table, c, n, v)
           box == Settings!With(Settings!Container(table, c), n, v)
<1>1. /\ DOMAIN new = DOMAIN table \cup {c} /\ new[c] = box
      /\ \A k \in DOMAIN table : k # c => new[k] = table[k]
  BY DEF Settings!Insert, Settings!With
<1>2. /\ DOMAIN box = DOMAIN Settings!Container(table, c) \cup {n} /\ box[n] = v
      /\ \A k \in DOMAIN Settings!Container(table, c) :
             k # n => box[k] = Settings!Container(table, c)[k]
  BY DEF Settings!With
<1>3. box # Settings!Scalar
  BY <1>2, NotScalar
<1> HIDE DEF new, box
<1> DEFINE Right == /\ Has(new, d, m) <=> (d = c /\ m = n) \/ Has(table, d, m)
                    /\ d = c /\ m = n => Value(new, d, m) = v
                    /\ ~(d = c /\ m = n) /\ Has(table, d, m) => Value(new, d, m) = Value(table, d, m)
<1>4. ASSUME d = c PROVE Right
  <2>1. Has(new, d, m) <=> m \in DOMAIN box
    BY <1>1, <1>3, <1>4 DEF Has, Value, Settings!Holds
  <2>2. Has(table, c, m) <=> m \in DOMAIN Settings!Container(table, c)
    BY Contained
  <2>3. Has(table, c, m) => Value(table, c, m) = Settings!Container(table, c)[m]
    BY DEF Has, Value, Settings!Holds, Settings!Container, Settings!IsTable
  <2> QED
    BY <1>1, <1>2, <1>4, <2>1, <2>2, <2>3 DEF Value
<1>5. ASSUME d # c PROVE Right
  BY <1>1, <1>5 DEF Has, Value, Settings!Holds
<1> QED
  BY <1>1, <1>4, <1>5 DEF new

\* A table with an empty container in place of none has the settings it had.
LEMMA Emptied ==
    ASSUME NEW table, NEW c, ~Settings!IsTable(table, c), NEW d, NEW m
    PROVE  LET new == Settings!With(table, c, Settings!Empty) IN
           /\ Has(new, d, m) <=> Has(table, d, m)
           /\ Has(table, d, m) => Value(new, d, m) = Value(table, d, m)
<1> DEFINE new == Settings!With(table, c, Settings!Empty)
<1>1. /\ DOMAIN new = DOMAIN table \cup {c} /\ new[c] = Settings!Empty
      /\ \A k \in DOMAIN table : k # c => new[k] = table[k]
  BY DEF Settings!With
<1>2. DOMAIN Settings!Empty = {}
  BY DEF Settings!Empty
<1>3. ~Has(table, c, m)
  BY DEF Has, Value, Settings!Holds, Settings!IsTable
<1> HIDE DEF new
<1> QED
  BY <1>1, <1>2, <1>3 DEF Has, Value, Settings!Holds, new

\* The defaults fill in what a table does not have.
LEMMA Merged ==
    ASSUME NEW table, NEW d, NEW m
    PROVE  LET new == Settings!MergeDefaults(table, Settings!GetDefaults) IN
           /\ DOMAIN new = DOMAIN table \cup {Settings!Program}
           /\ Has(table, d, m) => Has(new, d, m) /\ Value(new, d, m) = Value(table, d, m)
           /\ Has(new, Settings!Program, "animation") /\ Has(new, Settings!Program, "logLevel")
<1> DEFINE defaults == Settings!GetDefaults
           over == [c \in DOMAIN defaults |->
                       Settings!Over(Settings!Container(table, c), defaults[c])]
           new == Settings!Over(over, table)
           P == Settings!Program
<1>1. /\ DOMAIN defaults = {P} /\ DOMAIN over = {P}
      /\ DOMAIN defaults[P] = {"animation", "logLevel"}
      /\ over[P] = Settings!Over(Settings!Container(table, P), defaults[P])
  BY DEF Settings!GetDefaults
<1>2. Settings!MergeDefaults(table, Settings!GetDefaults) = new
  BY DEF Settings!MergeDefaults
<1> HIDE DEF defaults, over, P
<1>3. /\ DOMAIN new = DOMAIN table \cup {P} /\ new[P] = over[P]
      /\ \A k \in DOMAIN table : k # P => new[k] = table[k]
  BY <1>1 DEF Settings!Over
<1>4. /\ DOMAIN over[P] = DOMAIN Settings!Container(table, P) \cup {"animation", "logLevel"}
      /\ \A k \in DOMAIN Settings!Container(table, P) :
             over[P][k] = Settings!Container(table, P)[k]
  BY <1>1 DEF Settings!Over
<1>5. over[P] # Settings!Scalar
  <2>1. "logLevel" \in DOMAIN over[P] /\ Named("logLevel")
    BY <1>4 DEF Named
  <2> QED
    BY <2>1, NotScalar
<1> HIDE DEF new
<1>6. \A k : Has(new, P, k) <=> k \in DOMAIN over[P]
  BY <1>3, <1>5 DEF Has, Value, Settings!Holds
<1>7. Has(table, d, m) => Has(new, d, m) /\ Value(new, d, m) = Value(table, d, m)
  <2>1. CASE d = P
    BY <1>3, <1>4, <1>6, <2>1, Contained DEF Value
  <2>2. CASE d # P
    BY <1>3, <2>2 DEF Has, Value, Settings!Holds
  <2> QED
    BY <2>1, <2>2
<1>8. Has(new, P, "animation") /\ Has(new, P, "logLevel")
  BY <1>4, <1>6
<1> QED
  BY <1>2, <1>3, <1>7, <1>8 DEF P

\* A table without a setting has none but those it had, and not that one.
LEMMA Forgotten ==
    ASSUME NEW table, NEW s, NEW d, NEW m
    PROVE  LET new == Settings!Without(table, s) IN
           Has(new, d, m) => /\ Has(table, d, m) /\ ~(d = s.container /\ m = s.name)
                             /\ Value(new, d, m) = Value(table, d, m)
<1> DEFINE c == s.container
           box == [n \in DOMAIN table[c] \ {s.name} |-> table[c][n]]
           new == Settings!Without(table, s)
<1>1. CASE ~Has(table, c, s.name)
  BY <1>1 DEF Settings!Without, Has
<1>2. CASE Has(table, c, s.name)
  <2>1. c \in DOMAIN table /\ table[c] # Settings!Scalar
    BY <1>2 DEF Has, Value, Settings!Holds
  <2>2. new = [table EXCEPT ![c] = box]
    BY <1>2 DEF Settings!Without, Has
  <2>3. /\ DOMAIN box = DOMAIN table[c] \ {s.name}
        /\ \A n \in DOMAIN table[c] : n # s.name => box[n] = table[c][n]
    OBVIOUS
  <2> HIDE DEF box, new
  <2>4. /\ DOMAIN new = DOMAIN table /\ new[c] = box
        /\ \A k \in DOMAIN table : k # c => new[k] = table[k]
    BY <2>1, <2>2
  <2> HIDE DEF c
  <2>5. CASE d = c
    BY <2>1, <2>3, <2>4, <2>5 DEF Has, Value, Settings!Holds, c, new
  <2>6. CASE d # c
    BY <2>4, <2>6 DEF Has, Value, Settings!Holds, c, new
  <2> QED
    BY <2>5, <2>6
<1> QED
  BY <1>1, <1>2

\* SettingsService::LoadFromFile(): a file that can be parsed is in memory, with the defaults.
LEMMA LoadFromFileStep == StoreInv /\ Settings!LoadFromFile => StoreInv'
<1> SUFFICES ASSUME StoreInv, Settings!LoadFromFile PROVE StoreInv'
  OBVIOUS
<1>1. /\ saver = Settings!AllIdle /\ ~running
      /\ \A t \in {"server", "reader"} : saver[t] = "idle" /\ saving[t] = Settings!Nothing
      /\ UNCHANGED <<file, level, kept, saves, saveExcused, saving, text>>
  BY DEF Settings!LoadFromFile, Settings!threadVars, SavingInv, StoreInv, Settings!AllIdle,
         Settings!Threads
<1>2. CASE file.kind = "torn"
  <2>1. saveExcused # {}
    BY <1>2 DEF WrittenInv, StoreInv
  <2>2. refused' = TRUE /\ UNCHANGED <<running, memory, saver>>
    BY <1>2 DEF Settings!LoadFromFile, Settings!threadVars
  <2>3. StoreTypes' /\ SavingInv'
    BY <1>1, <2>2
      DEF StoreTypes, SavingInv, StoreInv, Has, Settings!Starting, Settings!Threads,
          Settings!AllIdle, Settings!Containers
  <2> QED
    BY <1>1, <2>1, <2>3 DEF StoreInv, WrittenInv, KeptInv, LoggedInv
<1>3. CASE file.kind # "torn"
  <2>1. /\ running' = TRUE /\ refused' = refused
        /\ memory' = Settings!MergeDefaults(file.table, Settings!GetDefaults)
        /\ saver' = [saver EXCEPT !["server"] = "open"]
    BY <1>3 DEF Settings!LoadFromFile
  <2>2. /\ DOMAIN memory' = DOMAIN file.table \cup {Settings!Program}
        /\ Has(memory', Settings!Program, "animation")
        /\ Has(memory', Settings!Program, "logLevel")
    BY <2>1, Merged
  <2>3. \A c, n : Keeps(file.table, memory', c, n)
    <3> SUFFICES ASSUME NEW c, NEW n, Has(file.table, c, n)
                 PROVE  Has(memory', c, n) /\ Value(memory', c, n) = Value(file.table, c, n)
      BY DEF Keeps
    <3> QED
      BY <2>1, Merged
  <2>4. saver'["server"] = "open" /\ saver'["reader"] = "idle"
    BY <1>1, <2>1 DEF StoreTypes, StoreInv, Settings!Threads
  <2>5. StoreTypes'
    BY <1>1, <2>1, <2>2 DEF StoreTypes, StoreInv, Settings!Containers, Settings!Threads
  <2>6. SavingInv'
    BY <1>1, <2>1, <2>2, <2>4 DEF SavingInv, Settings!Threads
  <2>7. Begins'
    BY <1>1, <2>1, <2>4 DEF Begins, Settings!Starting
  <2>8. WrittenInv'
    <3>1. \A t \in Settings!Threads : ~Settings!Writing(t)' /\ saver'[t] # "close"
      BY <2>4 DEF Settings!Writing, Settings!Threads
    <3> QED
      BY <1>1, <2>1, <2>7, <3>1 DEF WrittenInv, StoreInv, Written, Settings!Threads
  <2>9. KeptInv'
    <3> SUFFICES ASSUME saveExcused = {}
                 PROVE  \A c, n : Keeps(kept, file.table, c, n) /\ Keeps(kept, memory', c, n)
      BY <1>1 DEF KeptInv
    <3>1. \A c, n : Keeps(kept, file.table, c, n)
      BY <1>1 DEF KeptInv, StoreInv
    <3> QED
      BY <2>3, <3>1 DEF Keeps
  <2>10. LoggedInv'
    BY <1>1, <2>4 DEF LoggedInv, NoneSaved, Settings!Threads
  <2> QED
    BY <2>5, <2>6, <2>8, <2>9, <2>10 DEF StoreInv
<1> QED
  BY <1>2, <1>3

\* A crash: what was told is in the file, but for what was being saved.
LEMMA CrashStep == StoreInv /\ Settings!Crash => StoreInv'
<1> SUFFICES ASSUME StoreInv, Settings!Crash PROVE StoreInv'
  OBVIOUS
<1>1. /\ running /\ running' = FALSE /\ memory' = Settings!Empty /\ level' = "debug"
      /\ saver' = Settings!AllIdle /\ saving' = [t \in Settings!Threads |-> Settings!Nothing]
      /\ text' = [t \in Settings!Threads |-> Settings!Empty]
      /\ UNCHANGED <<file, refused>>
      /\ saveExcused \subseteq saveExcused' /\ saveExcused' \subseteq saveExcused \cup {"crash"}
      /\ saveExcused' = {} => Written
  BY DEF Settings!Crash, Settings!Ends, Written
<1>2. /\ \A t \in Settings!Threads : /\ saver'[t] = "idle" /\ saving'[t] = Settings!Nothing
                                     /\ text'[t] = Settings!Empty
      /\ DOMAIN Settings!Empty = {}
      /\ Settings!Nothing.container \in Settings!Containers /\ Named(Settings!Nothing.name)
  BY <1>1 DEF Named, Settings!AllIdle, Settings!Empty, Settings!Nothing, Settings!Containers
<1>3. StoreTypes'
  BY <1>1, <1>2 DEF StoreTypes, StoreInv, Settings!AllIdle
<1>4. SavingInv'
  BY <1>1, <1>2 DEF SavingInv, Settings!Starting, Settings!Threads
<1>5. WrittenInv'
  BY <1>1, <1>2 DEF WrittenInv, StoreInv, Written, Settings!Writing, Settings!Threads
<1>6. KeptInv'
  <2> SUFFICES ASSUME saveExcused' = {}, NEW c, NEW n PROVE Keeps(kept, file.table, c, n)'
    BY <1>1 DEF KeptInv
  <2> SUFFICES ASSUME Has(kept', c, n)
               PROVE  Has(file.table, c, n) /\ Value(file.table, c, n) = Value(kept', c, n)
    BY <1>1 DEF Keeps, Has, Value, Settings!Holds
  <2> DEFINE lost(t) == Settings!InFlight(t)
             before == Settings!Without(kept, lost("server"))
  <2>1. kept' = Settings!Without(before, lost("reader"))
    BY DEF Settings!Crash
  <2>2. /\ Has(before, c, n) /\ Value(kept', c, n) = Value(before, c, n)
        /\ ~(c = lost("reader").container /\ n = lost("reader").name)
    BY <2>1, Forgotten
  <2>3. /\ Has(kept, c, n) /\ Value(before, c, n) = Value(kept, c, n)
        /\ ~(c = lost("server").container /\ n = lost("server").name)
    BY <2>2, Forgotten
  <2>4. ~InFlight(c, n) /\ ~Unsaved(c, n)
    BY <2>2, <2>3 DEF InFlight, Unsaved, Saves, Settings!InFlight, Settings!Threads
  <2> HIDE DEF lost, before
  <2>5. saveExcused = {}
    BY <1>1
  <2>6. CASE Begins
    BY <2>2, <2>3, <2>5, <2>6 DEF KeptInv, StoreInv, Keeps
  <2>7. CASE ~Begins
    <3>1. Keeps(kept, memory, c, n)
      BY <1>1, <2>4, <2>5 DEF KeptInv, StoreInv
    <3>2. Agree(memory, file.table, c, n)
      BY <1>1, <2>4, <2>5, <2>7 DEF WrittenInv, StoreInv
    <3> QED
      BY <2>2, <2>3, <3>1, <3>2 DEF Keeps, Agree
  <2> QED
    BY <2>6, <2>7
<1>7. LoggedInv'
  BY <1>1 DEF LoggedInv, NoneSaved
<1> QED
  BY <1>3, <1>4, <1>5, <1>6, <1>7 DEF StoreInv

\* SettingsService::GetSettings(): an empty container has no setting.
LEMMA GetSettingsStep ==
    ASSUME StoreInv, NEW c \in Settings!Containers, Settings!GetSettings(c) PROVE StoreInv'
<1>1. /\ running /\ memory' = Settings!With(memory, c, Settings!Empty)
      /\ ~Settings!IsTable(memory, c)
      /\ UNCHANGED <<running, file, saver, saving, text, level, kept, refused, saves, saveExcused>>
  BY DEF Settings!GetSettings, Settings!threadVars
<1>2. DOMAIN memory' = DOMAIN memory \cup {c}
  BY <1>1 DEF Settings!With
<1>3. \A d, m : /\ Has(memory', d, m) <=> Has(memory, d, m)
                /\ Has(memory, d, m) => Value(memory', d, m) = Value(memory, d, m)
  <2> SUFFICES ASSUME NEW d, NEW m
               PROVE  /\ Has(memory', d, m) <=> Has(memory, d, m)
                      /\ Has(memory, d, m) => Value(memory', d, m) = Value(memory, d, m)
    OBVIOUS
  <2> QED
    BY <1>1, Emptied
<1>4. StoreTypes'
  BY <1>1, <1>2 DEF StoreTypes, StoreInv
<1>5. SavingInv'
  BY <1>1, <1>3 DEF SavingInv, StoreInv, Settings!Starting
<1>6. WrittenInv'
  BY <1>1, <1>3
    DEF WrittenInv, StoreInv, Written, Settings!Writing, Unsaved, Saves, Agree, Begins,
        Settings!Starting
<1>7. KeptInv'
  BY <1>1, <1>3 DEF KeptInv, StoreInv, InFlight, Saves, Keeps, Begins, Settings!Starting
<1>8. LoggedInv'
  BY <1>1, <1>3 DEF LoggedInv, StoreInv, NoneSaved, SavingInv
<1> QED
  BY <1>4, <1>5, <1>6, <1>7, <1>8 DEF StoreInv

\* SettingsService::SaveSetting(): what is saved is in memory, to be written.
LEMMA SaveSettingStep ==
    ASSUME StoreInv, NEW t \in Settings!Threads, Settings!SaveSetting(t) PROVE StoreInv'
<1>1. PICK c \in Settings!Containers, n \in SettingNames, v \in Values :
          /\ memory' = Settings!Insert(memory, c, n, v)
          /\ saving' = [saving EXCEPT ![t] = [container |-> c, name |-> n]]
          /\ t = "reader" => c = "device"
  BY DEF Settings!SaveSetting, Settings!Containers, Settings!Threads
<1>2. /\ running /\ ~Settings!Starting /\ saver[t] = "idle"
      /\ saver' = [saver EXCEPT ![t] = "open"]
      /\ UNCHANGED <<running, file, text, level, kept, refused, saveExcused>>
  BY DEF Settings!SaveSetting, Settings!Goes
<1>3. Named(n) /\ n # "none"
  BY SettingNamesAssumption DEF Named
<1>4. DOMAIN memory' = DOMAIN memory \cup {c}
  BY <1>1 DEF Settings!Insert, Settings!With
<1>5. \A d, m : /\ Has(memory', d, m) <=> (d = c /\ m = n) \/ Has(memory, d, m)
                /\ ~(d = c /\ m = n) /\ Has(memory, d, m) => Value(memory', d, m) = Value(memory, d, m)
  <2> SUFFICES ASSUME NEW d, NEW m
               PROVE  /\ Has(memory', d, m) <=> (d = c /\ m = n) \/ Has(memory, d, m)
                      /\ ~(d = c /\ m = n) /\ Has(memory, d, m)
                             => Value(memory', d, m) = Value(memory, d, m)
    OBVIOUS
  <2> QED
    BY <1>1, <1>3, Inserted
<1>6. /\ saver'[t] = "open" /\ saving'[t] = [container |-> c, name |-> n]
      /\ saving'[t] # Settings!Nothing /\ saving[t] = Settings!Nothing
      /\ \A u \in Settings!Threads : u # t => saver'[u] = saver[u] /\ saving'[u] = saving[u]
  BY <1>1, <1>2, <1>3 DEF StoreTypes, SavingInv, StoreInv, Settings!Nothing
<1>7. ~Settings!Starting' /\ ~Begins' /\ ~Begins
  <2>1. CASE t = "server"
    BY <1>2, <1>6, <2>1 DEF Settings!Starting, Begins
  <2>2. CASE t = "reader"
    BY <1>2, <1>6, <2>2 DEF Settings!Starting, Begins, Settings!Threads
  <2> QED
    BY <2>1, <2>2 DEF Settings!Threads
<1>8. StoreTypes'
  BY <1>1, <1>2, <1>3, <1>4, <1>6 DEF StoreTypes, StoreInv
<1>9. SavingInv'
  <2>1. \A u \in Settings!Threads : saver'[u] = "idle" => saving'[u] = Settings!Nothing
    BY <1>6 DEF SavingInv, StoreInv
  <2>2. saver'["reader"] # "idle" =>
            saving'["reader"] # Settings!Nothing /\ saving'["reader"].container = "device"
    BY <1>1, <1>6 DEF SavingInv, StoreInv, Settings!Threads
  <2>3. \A u \in Settings!Threads : saving'[u] # Settings!Nothing =>
            Has(memory', saving'[u].container, saving'[u].name)
    BY <1>2, <1>5, <1>6 DEF SavingInv, StoreInv
  <2>4. \A m \in {"animation", "logLevel"} : Has(memory', Settings!Program, m)
    BY <1>2, <1>5 DEF SavingInv, StoreInv
  <2> QED
    BY <1>2, <1>7, <2>1, <2>2, <2>3, <2>4 DEF SavingInv
<1>10. \A d, m : (d = c /\ m = n) \/ Unsaved(d, m) => Unsaved(d, m)'
  BY <1>2, <1>6 DEF Unsaved, Saves
<1>11. \A d, m : (d = c /\ m = n) \/ InFlight(d, m) => InFlight(d, m)'
  BY <1>2, <1>6 DEF InFlight, Saves
<1>12. \A u \in Settings!Threads : /\ Settings!Writing(u)' <=> Settings!Writing(u)
                                   /\ saver'[u] = "close" <=> saver[u] = "close"
  BY <1>2, <1>6 DEF Settings!Writing
<1>13. WrittenInv'
  <2> SUFFICES ASSUME saveExcused = {} PROVE WrittenInv'
    BY <1>2 DEF WrittenInv
  <2>1. \A table, d, m : Unsaved(d, m) \/ Agree(memory, table, d, m)
                             => Unsaved(d, m)' \/ Agree(memory', table, d, m)
    BY <1>5, <1>10 DEF Agree
  <2>2. \A u \in Settings!Threads : saver[u] = "close" =>
            \A d, m : Unsaved(d, m)' \/ Agree(memory', text[u], d, m)
    BY <2>1 DEF WrittenInv, StoreInv
  <2>3. Written => \A d, m : Unsaved(d, m)' \/ Agree(memory', file.table, d, m)
    BY <1>2, <1>7, <2>1 DEF WrittenInv, StoreInv
  <2> QED
    BY <1>2, <1>12, <2>2, <2>3 DEF WrittenInv, StoreInv, Written, Settings!Threads, Agree
<1>14. KeptInv'
  BY <1>2, <1>5, <1>7, <1>11 DEF KeptInv, StoreInv, Keeps
<1>15. LoggedInv'
  <2> SUFFICES ASSUME NoneSaved' PROVE LoggedInv'
    BY DEF LoggedInv
  <2>1. ~(c = Settings!Program /\ n = "logLevel")
    BY <1>6 DEF NoneSaved, LogLevel
  <2>2. Value(memory', Settings!Program, "logLevel") = Value(memory, Settings!Program, "logLevel")
    BY <1>2, <1>5, <2>1 DEF SavingInv, StoreInv
  <2>3. NoneSaved
    BY <1>2, <1>6 DEF NoneSaved
  <2> QED
    BY <1>2, <2>2, <2>3 DEF LoggedInv, StoreInv
<1> QED
  BY <1>8, <1>9, <1>13, <1>14, <1>15 DEF StoreInv

\* SettingsService::WriteToFile(): opening fails.
LEMMA OpenFailsStep ==
    ASSUME StoreInv, NEW t \in Settings!Threads, Settings!OpenFails(t) PROVE StoreInv'
<1>1. /\ saver[t] = "open" /\ saveExcused' = saveExcused \cup {"fails"}
      /\ UNCHANGED <<file, kept, refused>>
  BY DEF Settings!OpenFails
<1>2. StoreTypes' /\ SavingInv'
  <2>1. /\ Settings!Nothing.container \in Settings!Containers /\ Named(Settings!Nothing.name)
        /\ DOMAIN Settings!Empty = {}
    BY DEF Named, Settings!Empty, Settings!Nothing, Settings!Containers
  <2>2. CASE Settings!Starting
    <3>1. /\ running' = FALSE /\ memory' = Settings!Empty /\ level' = "debug"
          /\ saver' = Settings!AllIdle
          /\ saving' = [u \in Settings!Threads |-> Settings!Nothing]
          /\ text' = [u \in Settings!Threads |-> Settings!Empty]
      BY <2>2 DEF Settings!OpenFails, Settings!Ends
    <3>2. \A u \in Settings!Threads : saver'[u] = "idle" /\ saving'[u] = Settings!Nothing
                                          /\ text'[u] = Settings!Empty
      BY <3>1 DEF Settings!AllIdle
    <3> QED
      BY <1>1, <2>1, <3>1, <3>2
        DEF StoreTypes, SavingInv, StoreInv, Settings!AllIdle, Settings!Starting,
            Settings!Threads
  <2>3. CASE ~Settings!Starting
    <3>1. /\ saver' = [saver EXCEPT ![t] = "idle"]
          /\ saving' = [saving EXCEPT ![t] = Settings!Nothing]
          /\ UNCHANGED <<running, memory, level, text>>
      BY <2>3 DEF Settings!OpenFails
    <3>2. /\ saver'[t] = "idle" /\ saving'[t] = Settings!Nothing
          /\ \A u \in Settings!Threads : u # t => saver'[u] = saver[u] /\ saving'[u] = saving[u]
      BY <3>1 DEF StoreTypes, StoreInv
    <3>3. StoreTypes'
      BY <1>1, <2>1, <3>1, <3>2 DEF StoreTypes, StoreInv
    <3>4. running
      BY <1>1 DEF SavingInv, StoreInv, Settings!AllIdle
    <3>5. ~Settings!Starting'
      BY <2>3, <3>1, <3>2 DEF Settings!Starting, Settings!Threads
    <3> QED
      BY <3>1, <3>2, <3>3, <3>4, <3>5 DEF SavingInv, StoreInv, Settings!Threads
  <2> QED
    BY <2>2, <2>3
<1> QED
  BY <1>1, <1>2 DEF StoreInv, WrittenInv, KeptInv, LoggedInv

\* Each thread goes on to where the code says, and the other stays.
LEMMA ThreadGoes ==
    ASSUME StoreInv, NEW t \in Settings!Threads, NEW from, NEW to, Settings!Goes(t, from, to),
           from # "idle"
    PROVE  /\ saver[t] = from /\ saver'[t] = to /\ running
           /\ \A u \in Settings!Threads : u # t => saver'[u] = saver[u]
           /\ t = "reader" => ~Settings!Starting
BY DEF Settings!Goes, StoreInv, StoreTypes, SavingInv, Settings!AllIdle

\* SettingsService::WriteToFile(): the file is open, and empty.
LEMMA OpensStep ==
    ASSUME StoreInv, NEW t \in Settings!Threads, Settings!Opens(t) PROVE StoreInv'
<1>1. /\ saver[t] = "open" /\ saver'[t] = "print" /\ running
      /\ \A u \in Settings!Threads : u # t => saver'[u] = saver[u]
      /\ t = "reader" => ~Settings!Starting
  BY ThreadGoes DEF Settings!Opens
<1>2. /\ saver' = [saver EXCEPT ![t] = "print"]
      /\ file' = Settings!Text(Settings!Empty)
      /\ UNCHANGED <<running, memory, saving, text, level, kept, refused>>
      /\ saveExcused' \in {saveExcused, saveExcused \cup {"overlap"}}
      /\ saveExcused' = {} =>
             saveExcused = {} /\ \A u \in Settings!Threads \ {t} : ~Settings!Writing(u)
  BY DEF Settings!Opens, Settings!Goes
<1>3. file'.table = Settings!Empty /\ file'.kind = "text" /\ DOMAIN Settings!Empty = {}
  BY <1>2 DEF Settings!Text, Settings!Empty
<1>4. StoreTypes'
  BY <1>2, <1>3 DEF StoreTypes, StoreInv
<1>5. SavingInv'
  BY <1>1, <1>2 DEF SavingInv, StoreInv, Settings!Starting, Settings!Threads
<1>6. ~Begins'
  BY <1>1, <1>2 DEF Begins, Settings!Starting, Settings!Threads
<1>7. WrittenInv'
  <2> SUFFICES ASSUME saveExcused' = {} PROVE WrittenInv'
    BY DEF WrittenInv
  <2>1. /\ Settings!Writing(t)'
        /\ \A u \in Settings!Threads : u # t => ~Settings!Writing(u)' /\ saver'[u] # "close"
    BY <1>1, <1>2 DEF Settings!Writing
  <2> QED
    BY <1>1, <1>2, <1>3, <2>1 DEF WrittenInv, StoreInv, Written, Settings!Threads
<1>8. KeptInv'
  <2>1. \A c, n : InFlight(c, n)' <=> InFlight(c, n)
    BY <1>1, <1>2 DEF InFlight, Saves
  <2> QED
    BY <1>1, <1>2, <1>6, <2>1 DEF KeptInv, StoreInv, Keeps
<1>9. LoggedInv'
  BY <1>1, <1>2 DEF LoggedInv, StoreInv, NoneSaved
<1> QED
  BY <1>4, <1>5, <1>7, <1>8, <1>9 DEF StoreInv

\* SettingsService::WriteToFile(): what is printed is all that is in memory.
LEMMA PrintsStep ==
    ASSUME StoreInv, NEW t \in Settings!Threads, Settings!Prints(t) PROVE StoreInv'
<1>1. /\ saver[t] = "print" /\ saver'[t] = "close" /\ running
      /\ \A u \in Settings!Threads : u # t => saver'[u] = saver[u]
      /\ t = "reader" => ~Settings!Starting
  BY ThreadGoes DEF Settings!Prints
<1>2. /\ saver' = [saver EXCEPT ![t] = "close"]
      /\ text' = [text EXCEPT ![t] = memory]
      /\ UNCHANGED <<running, memory, file, saving, level, kept, refused, saveExcused>>
  BY DEF Settings!Prints, Settings!Goes
<1>3. text'[t] = memory /\ \A u \in Settings!Threads : u # t => text'[u] = text[u]
  BY <1>2 DEF StoreTypes, StoreInv
<1>4. StoreTypes'
  BY <1>2, <1>3 DEF StoreTypes, StoreInv
<1>5. SavingInv'
  BY <1>1, <1>2 DEF SavingInv, StoreInv, Settings!Starting, Settings!Threads
<1>6. /\ \A u \in Settings!Threads : Settings!Writing(u)' <=> Settings!Writing(u)
      /\ Begins' <=> Begins
  BY <1>1, <1>2 DEF Settings!Writing, Begins, Settings!Starting, Settings!Threads
<1>7. \A c, n : (Unsaved(c, n)' <=> Unsaved(c, n)) /\ (InFlight(c, n)' <=> InFlight(c, n))
  BY <1>1, <1>2 DEF Unsaved, InFlight, Saves
<1>8. WrittenInv'
  <2> SUFFICES ASSUME saveExcused = {} PROVE WrittenInv'
    BY <1>2 DEF WrittenInv
  <2>1. \A u \in Settings!Threads : saver'[u] = "close" => u = t
    BY <1>1 DEF WrittenInv, StoreInv, Settings!Writing, Settings!Threads
  <2>2. \A c, n : Agree(memory, text'[t], c, n)
    BY <1>3 DEF Agree
  <2>3. Settings!Writing(t)
    BY <1>1 DEF Settings!Writing
  <2>4. ~Written /\ ~Written'
    BY <1>6, <2>3 DEF Written
  <2>5. /\ ~(Settings!Writing("server")' /\ Settings!Writing("reader")')
        /\ file'.kind # "torn" /\ ~refused' /\ file'.table = Settings!Empty
    BY <1>2, <1>6, <2>4 DEF WrittenInv, StoreInv, Settings!Threads
  <2>6. \A u \in Settings!Threads : saver'[u] = "close" =>
            \A c, n : Agree(memory, text[u], c, n)'
    BY <1>2, <2>1, <2>2 DEF Agree, Has, Value, Settings!Holds
  <2> QED
    BY <2>4, <2>5, <2>6 DEF WrittenInv
<1>9. KeptInv'
  BY <1>2, <1>6, <1>7 DEF KeptInv, StoreInv, Keeps
<1>10. LoggedInv'
  BY <1>1, <1>2 DEF LoggedInv, StoreInv, NoneSaved
<1> QED
  BY <1>4, <1>5, <1>8, <1>9, <1>10 DEF StoreInv

\* SettingsService::WriteToFile(): the file is closed, and holds what was printed.
LEMMA ClosesStep ==
    ASSUME StoreInv, NEW t \in Settings!Threads,
           Settings!Closes(t) \/ Settings!CloseLoses(t)
    PROVE  StoreInv'
<1>1. /\ saver[t] = "close" /\ saver'[t] = "fire" /\ running
      /\ \A u \in Settings!Threads : u # t => saver'[u] = saver[u]
      /\ t = "reader" => ~Settings!Starting
  BY ThreadGoes DEF Settings!Closes, Settings!CloseLoses
<1>2. /\ saver' = [saver EXCEPT ![t] = "fire"]
      /\ text' = [text EXCEPT ![t] = Settings!Empty]
      /\ UNCHANGED <<running, memory, saving, level, kept, refused>>
      /\ saveExcused' \in {saveExcused, saveExcused \cup {"full"}}
      /\ file' = file \/ file' = Settings!Torn \/ file' = Settings!Text(text[t])
      /\ saveExcused' = {} =>
             /\ saveExcused = {}
             /\ file.table = Settings!Empty => file' = Settings!Text(text[t])
  BY DEF Settings!Closes, Settings!CloseLoses, Settings!Goes
<1>3. /\ text'[t] = Settings!Empty /\ \A u \in Settings!Threads : u # t => text'[u] = text[u]
      /\ DOMAIN Settings!Empty = {}
  <2>1. DOMAIN Settings!Empty = {}
    BY DEF Settings!Empty
  <2> QED
    BY <1>2, <2>1 DEF StoreTypes, StoreInv
<1>4. StoreTypes'
  <2>1. /\ file'.kind \in {"text", "missing", "torn"}
        /\ DOMAIN file'.table \subseteq Settings!Containers
    <3>1. \A table : Settings!Text(table).kind = "text" /\ Settings!Text(table).table = table
      BY DEF Settings!Text
    <3>2. Settings!Torn.kind = "torn" /\ Settings!Torn.table = Settings!Empty
      BY DEF Settings!Torn
    <3>3. file.kind \in {"text", "missing", "torn"}
      BY DEF StoreTypes, StoreInv
    <3>4. /\ DOMAIN file.table \subseteq Settings!Containers
          /\ DOMAIN text[t] \subseteq Settings!Containers
      BY DEF StoreTypes, StoreInv
    <3> QED
      BY <1>2, <1>3, <3>1, <3>2, <3>3, <3>4
  <2> QED
    BY <1>2, <1>3, <2>1 DEF StoreTypes, StoreInv
<1>5. SavingInv'
  BY <1>1, <1>2 DEF SavingInv, StoreInv, Settings!Starting, Settings!Threads
<1>6. Begins' <=> Begins
  BY <1>1, <1>2 DEF Begins, Settings!Starting, Settings!Threads
<1>7. \A c, n : (Unsaved(c, n)' <=> Unsaved(c, n)) /\ (InFlight(c, n)' <=> InFlight(c, n))
  BY <1>1, <1>2 DEF Unsaved, InFlight, Saves
<1>8. Begins => t = "server" /\ saver["server"] = "open"
  BY <1>1 DEF Begins, Settings!Threads
<1>9. WrittenInv'
  <2> SUFFICES ASSUME saveExcused' = {} PROVE WrittenInv'
    BY DEF WrittenInv
  <2>1. \A u \in Settings!Threads : u # t => ~Settings!Writing(u) /\ saver[u] # "close"
    BY <1>1, <1>2 DEF WrittenInv, StoreInv, Settings!Writing, Settings!Threads
  <2>2. file.table = Settings!Empty
    BY <1>1, <1>2 DEF WrittenInv, StoreInv, Written, Settings!Writing
  <2>3. file'.table = text[t] /\ file'.kind = "text"
    BY <1>2, <2>2 DEF Settings!Text
  <2>4. \A c, n : Unsaved(c, n) \/ Agree(memory, text[t], c, n)
    BY <1>1, <1>2 DEF WrittenInv, StoreInv
  <2>5. \A u \in Settings!Threads : ~Settings!Writing(u)' /\ saver'[u] # "close"
    BY <1>1, <2>1 DEF Settings!Writing
  <2>6. ~refused'
    BY <1>2 DEF WrittenInv, StoreInv
  <2>7. \A c, n : Unsaved(c, n)' \/ Agree(memory, file.table, c, n)'
    BY <1>2, <1>7, <2>3, <2>4 DEF Agree, Has, Value, Settings!Holds
  <2> QED
    BY <2>3, <2>5, <2>6, <2>7 DEF WrittenInv, Written, Settings!Threads
<1>10. KeptInv'
  BY <1>1, <1>2, <1>6, <1>7, <1>8 DEF KeptInv, StoreInv, Keeps
<1>11. LoggedInv'
  BY <1>1, <1>2 DEF LoggedInv, StoreInv, NoneSaved
<1> QED
  BY <1>4, <1>5, <1>9, <1>10, <1>11 DEF StoreInv

\* SettingsService::SaveSetting(): the listeners are told what is in memory.
LEMMA FireEventStep ==
    ASSUME StoreInv, NEW t \in Settings!Threads, Settings!FireEvent(t) PROVE StoreInv'
<1> DEFINE s == saving[t]
<1>1. /\ saver[t] = "fire" /\ saver'[t] = "idle" /\ running
      /\ \A u \in Settings!Threads : u # t => saver'[u] = saver[u]
      /\ t = "reader" => ~Settings!Starting
  BY ThreadGoes DEF Settings!FireEvent
<1>2. /\ saver' = [saver EXCEPT ![t] = "idle"]
      /\ saving' = [saving EXCEPT ![t] = Settings!Nothing]
      /\ kept' = IF s = Settings!Nothing THEN kept
                 ELSE Settings!Insert(kept, s.container, s.name, Value(memory, s.container, s.name))
      /\ level' = IF s = Settings!Nothing \/ s = LogLevel THEN Settings!LevelOf(memory, level)
                  ELSE level
      /\ UNCHANGED <<running, memory, file, text, refused, saveExcused>>
  BY DEF Settings!FireEvent, Settings!Goes, LogLevel, Value
<1>3. /\ saving'[t] = Settings!Nothing
      /\ \A u \in Settings!Threads : u # t => saving'[u] = saving[u]
      /\ Settings!Nothing.container \in Settings!Containers /\ Named(Settings!Nothing.name)
  BY <1>2 DEF Named, StoreTypes, StoreInv, Settings!Nothing, Settings!Containers
<1>4. StoreTypes'
  BY <1>1, <1>2, <1>3 DEF StoreTypes, StoreInv, Settings!LevelOf
<1>5. ~Settings!Starting' /\ ~Begins' /\ ~Begins
  BY <1>1, <1>2, <1>3 DEF Begins, Settings!Starting, Settings!Threads
<1>6. SavingInv'
  BY <1>1, <1>2, <1>3, <1>5 DEF SavingInv, StoreInv, Settings!Threads
<1>7. WrittenInv'
  <2>1. \A u \in Settings!Threads : /\ Settings!Writing(u)' <=> Settings!Writing(u)
                                    /\ saver'[u] = "close" <=> saver[u] = "close"
    BY <1>1 DEF Settings!Writing
  <2>2. \A c, n : Unsaved(c, n)' <=> Unsaved(c, n)
    BY <1>1, <1>2, <1>3 DEF Unsaved, Saves
  <2> QED
    BY <1>2, <1>5, <2>1, <2>2 DEF WrittenInv, StoreInv, Written, Agree, Settings!Threads
<1>8. KeptInv'
  <2> SUFFICES ASSUME saveExcused = {}, NEW c, NEW n, ~InFlight(c, n)'
               PROVE  Keeps(kept', memory, c, n)
    BY <1>1, <1>2, <1>5 DEF KeptInv, Keeps
  <2>1. ~Saves(t, c, n) => ~InFlight(c, n)
    BY <1>1, <1>3 DEF InFlight, Saves
  <2>2. ~Saves(t, c, n) => Keeps(kept, memory, c, n)
    BY <1>1, <2>1 DEF KeptInv, StoreInv
  <2>3. CASE s = Settings!Nothing
    BY <1>2, <2>2, <2>3 DEF Saves
  <2>4. CASE s # Settings!Nothing
    <3>1. Named(s.name) /\ Has(memory, s.container, s.name)
      BY <1>1, <2>4 DEF StoreTypes, SavingInv, StoreInv
    <3>2. kept' = Settings!Insert(kept, s.container, s.name, Value(memory, s.container, s.name))
      BY <1>2, <2>4
    <3> HIDE DEF s
    <3>3. /\ Has(kept', c, n) <=> (c = s.container /\ n = s.name) \/ Has(kept, c, n)
          /\ c = s.container /\ n = s.name => Value(kept', c, n) = Value(memory, c, n)
          /\ ~(c = s.container /\ n = s.name) /\ Has(kept, c, n) => Value(kept', c, n) = Value(kept, c, n)
      BY <3>1, <3>2, Inserted
    <3>4. Saves(t, c, n) <=> c = s.container /\ n = s.name
      BY <2>4 DEF Saves, s
    <3> QED
      BY <2>2, <3>1, <3>3, <3>4 DEF Keeps
  <2> QED
    BY <2>3, <2>4
<1>9. LoggedInv'
  <2>1. Settings!Holds(memory, Settings!Program, "logLevel")
    BY <1>1 DEF SavingInv, StoreInv, Has
  <2>2. CASE s = Settings!Nothing \/ s = LogLevel
    BY <1>2, <2>1, <2>2 DEF LoggedInv, Settings!LevelOf, Value
  <2>3. CASE ~(s = Settings!Nothing \/ s = LogLevel)
    <3>1. NoneSaved' => NoneSaved
      BY <1>1, <1>2, <1>3, <2>3 DEF NoneSaved
    <3> QED
      BY <1>2, <2>3, <3>1 DEF LoggedInv, StoreInv
  <2> QED
    BY <2>2, <2>3
<1> QED
  BY <1>4, <1>6, <1>7, <1>8, <1>9 DEF StoreInv

\* What is true of the settings is true after every step.
LEMMA StoreStep == StoreInv /\ [Settings!Next]_Settings!vars => StoreInv'
<1> SUFFICES ASSUME StoreInv, [Settings!Next]_Settings!vars PROVE StoreInv'
  OBVIOUS
<1>1. CASE UNCHANGED Settings!vars
  BY <1>1
    DEF Settings!vars, Settings!threadVars, StoreInv, StoreTypes, SavingInv, WrittenInv, KeptInv,
        LoggedInv, Written, Settings!Writing, Unsaved, InFlight, Saves, Has, Value, Agree, Keeps,
        Begins, NoneSaved, Settings!Starting
<1> QED
  BY <1>1, LoadFromFileStep, CrashStep, GetSettingsStep, SaveSettingStep, OpenFailsStep,
     OpensStep, PrintsStep, ClosesStep, FireEventStep DEF Settings!Next

LEMMA SettingsInvariance == Settings!Spec => []StoreInv
<1>1. Settings!Init => StoreInv
  <2> SUFFICES ASSUME Settings!Init PROVE StoreInv
    OBVIOUS
  <2>1. /\ running = FALSE /\ memory = Settings!Empty /\ refused = FALSE /\ saveExcused = {}
        /\ level = "debug" /\ kept = file.table /\ saver = Settings!AllIdle
        /\ saving = [t \in Settings!Threads |-> Settings!Nothing]
        /\ text = [t \in Settings!Threads |-> Settings!Empty]
    BY DEF Settings!Init, Settings!AllIdle
  <2>2. /\ \A t \in Settings!Threads : /\ saver[t] = "idle" /\ saving[t] = Settings!Nothing
                                       /\ text[t] = Settings!Empty
        /\ DOMAIN Settings!Empty = {}
        /\ Settings!Nothing.container \in Settings!Containers /\ Named(Settings!Nothing.name)
    BY <2>1
      DEF Settings!AllIdle, Settings!Empty, Settings!Nothing, Settings!Containers, Named
  <2>3. /\ file.kind \in {"text", "missing"}
        /\ DOMAIN file.table \subseteq Settings!Containers
    BY DEF Settings!Init, Settings!FirstFiles, Settings!Missing, Settings!Text, Settings!Empty,
           Settings!Containers
  <2>4. StoreTypes
    BY <2>1, <2>2, <2>3 DEF StoreTypes, Settings!AllIdle
  <2>5. SavingInv
    BY <2>1, <2>2 DEF SavingInv, Settings!Starting, Settings!Threads
  <2>6. WrittenInv
    BY <2>1, <2>2, <2>3 DEF WrittenInv, Written, Settings!Writing, Settings!Threads
  <2>7. KeptInv
    BY <2>1 DEF KeptInv, Keeps
  <2>8. LoggedInv
    BY <2>1 DEF LoggedInv, NoneSaved
  <2> QED
    BY <2>4, <2>5, <2>6, <2>7, <2>8 DEF StoreInv
<1> QED
  BY <1>1, StoreStep, PTL DEF Settings!Spec

\* Two tables that agree, or one of which keeps what the other has, are the same for it.
LEMMA KeptIsSame ==
    ASSUME NEW table, NEW other, \A c, n : Keeps(table, other, c, n)
    PROVE  Settings!Same(table, other)
<1> SUFFICES ASSUME NEW c \in DOMAIN table, NEW n \in DOMAIN Settings!Container(table, c)
             PROVE  Settings!Holds(other, c, n) /\ other[c][n] = table[c][n]
  BY DEF Settings!Same
<1>1. Has(table, c, n)
  BY Contained
<1>2. Has(other, c, n) /\ Value(other, c, n) = Value(table, c, n)
  BY <1>1 DEF Keeps
<1> QED
  BY <1>2 DEF Has, Value

\* What was saved is in memory and in the file, and the program can be started again:
\* SettingsService, for whatever settings are saved, by two threads, and wherever the program
\* is killed while the file is whole.
THEOREM SettingsAreKept == PartSpec => []SettingsKept
<1>1. StoreInv => SettingsKept
  <2> SUFFICES ASSUME StoreInv PROVE Settings!TypeOK /\ Settings!SettingsKept
    BY DEF SettingsKept
  <2>1. Settings!TypeOK
    BY DEF StoreInv, StoreTypes, Settings!TypeOK
  <2> SUFFICES ASSUME saveExcused = {} PROVE Settings!SettingsKept
    BY <2>1 DEF Settings!SettingsKept
  <2>2. ~refused /\ file.kind # "torn"
    BY DEF StoreInv, WrittenInv
  <2>3. ASSUME running, saver = Settings!AllIdle
        PROVE  /\ Settings!Same(kept, memory) /\ Settings!Same(memory, file.table)
               /\ Settings!Same(file.table, memory)
               /\ \A n \in DOMAIN Settings!GetDefaults[Settings!Program] :
                      Settings!Holds(memory, Settings!Program, n)
               /\ memory[Settings!Program]["logLevel"] \in ValidLevels
                      => level = memory[Settings!Program]["logLevel"]
    <3>1. \A t \in Settings!Threads : saver[t] = "idle"
      BY <2>3 DEF Settings!AllIdle
    <3>2. Written /\ ~Begins /\ NoneSaved /\ \A c, n : ~Unsaved(c, n) /\ ~InFlight(c, n)
      BY <2>3, <3>1
        DEF Written, Begins, NoneSaved, Unsaved, InFlight, Settings!Writing, Settings!Starting,
            Settings!Threads
    <3>3. \A c, n : Agree(memory, file.table, c, n)
      BY <2>3, <3>2 DEF StoreInv, WrittenInv
    <3>4. \A c, n : Keeps(memory, file.table, c, n) /\ Keeps(file.table, memory, c, n)
      BY <3>3 DEF Agree, Keeps
    <3>5. \A c, n : Keeps(kept, memory, c, n)
      BY <2>3, <3>2 DEF StoreInv, KeptInv
    <3>6. /\ Settings!Same(kept, memory) /\ Settings!Same(memory, file.table)
          /\ Settings!Same(file.table, memory)
      BY <3>4, <3>5, KeptIsSame
    <3>7. \A n \in {"animation", "logLevel"} : Has(memory, Settings!Program, n)
      BY <2>3 DEF StoreInv, SavingInv
    <3>8. DOMAIN Settings!GetDefaults[Settings!Program] = {"animation", "logLevel"}
      BY DEF Settings!GetDefaults
    <3>9. \A n \in DOMAIN Settings!GetDefaults[Settings!Program] :
              Settings!Holds(memory, Settings!Program, n)
      BY <3>7, <3>8 DEF Has
    <3>10. memory[Settings!Program]["logLevel"] \in ValidLevels
               => level = memory[Settings!Program]["logLevel"]
      BY <3>2 DEF StoreInv, LoggedInv, Value
    <3> QED
      BY <3>6, <3>9, <3>10
  <2> QED
    BY <2>2, <2>3 DEF Settings!SettingsKept
<1> QED
  BY <1>1, SettingsInvariance, PartsOfPeriphery, PTL

(***************************************************************************)
(* The battery of hands-free headphones: BhfBatteryCapability.             *)
(***************************************************************************)
\* What signals say: the state of the connection before and after each, and the level.
Signals == [is : {"connected", "disconnected", "level"},
            level : Percentages \cup {HandsFree!Unknown}]
AfterIt(signal) == signal.is # "disconnected"
BeforeIt(signal) == signal.is # "connected"

TellerPcs == {"ask", "listen", "done", "idle", "update", "show", "clear", "hide"}
BatteryTypes ==
    /\ linked \in BOOLEAN /\ infoLinked \in BOOLEAN /\ isAvailable \in BOOLEAN
    /\ tellExcused \in BOOLEAN
    /\ percentage \in Percentages \cup {HandsFree!Unknown}
    /\ battery \in Percentages \cup {HandsFree!Unknown, HandsFree!Initial}
    /\ infoLevel \in Percentages \cup {HandsFree!Initial}
    /\ teller \in [HandsFree!Threads -> TellerPcs]
    /\ carried \in [HandsFree!Threads ->
                       Percentages \cup {HandsFree!Unknown, HandsFree!Initial}]
    /\ toDevice \in Seq(Signals) /\ toService \in Seq(Percentages)
    /\ \A i \in 1..Len(toDevice) :
           toDevice[i].level = HandsFree!Unknown <=> toDevice[i].is # "level"

\* The connection, from what the program knows over the signals on their way to what it is.
ConnectionInv ==
    /\ toDevice = <<>> => infoLinked = linked
    /\ toDevice # <<>> =>
           /\ BeforeIt(toDevice[1]) = infoLinked
           /\ AfterIt(Last(toDevice)) = linked
    /\ \A i \in 1..(Len(toDevice) - 1) : AfterIt(toDevice[i]) = BeforeIt(toDevice[i + 1])
    /\ percentage # HandsFree!Unknown => linked

\* Signals on their way in both streams excuse whichever is handled first.
Ordered == ~tellExcused /\ (toDevice = <<>> \/ toService = <<>>)

\* The level, likewise: it is told only while the battery's interface is known.
LevelInv ==
    Ordered =>
        /\ toService # <<>> =>
               Len(toService) = 1 /\ toService[1] = percentage
                   /\ percentage # HandsFree!Unknown
        /\ toDevice # <<>> => Last(toDevice).level = percentage
        /\ \A i \in 1..(Len(toDevice) - 1) :
               toDevice[i + 1].is = "level" => toDevice[i].is = "level"

\* A thread that hands a level on, and what the program will show when it has.
Tells(t) == teller[t] \in {"update", "show"}
Telling == \E t \in HandsFree!Threads : Tells(t)
Shown == Telling \/ (teller["creator"] = "ask" /\ infoLinked)
             \/ (isAvailable /\ teller["device"] \notin {"clear", "hide"})

TellerInv ==
    /\ teller["creator"] \notin {"idle", "clear", "hide"}
    /\ teller["device"] \notin {"ask", "listen", "done"}
    /\ teller["service"] \in {"idle", "update", "show"}
ShownInv ==
    ~tellExcused =>
        /\ teller["creator"] # "done" => teller["device"] = "idle" /\ teller["service"] = "idle"
        /\ teller["device"] = "idle" \/ teller["service"] = "idle"
        /\ teller["creator"] = "ask" => ~isAvailable
        /\ \A t \in HandsFree!Threads :
               /\ Tells(t) => carried[t] = infoLevel /\ infoLinked
               /\ teller[t] = "show" => battery = infoLevel
        /\ teller["device"] \in {"clear", "hide"} => ~infoLinked
        /\ teller["device"] = "hide" => battery = HandsFree!Unknown
        /\ (\A t \in HandsFree!Threads : teller[t] \notin {"show", "hide"}) =>
               (battery = HandsFree!Unknown <=> ~isAvailable)
        /\ isAvailable /\ ~Telling /\ teller["device"] = "idle" =>
               infoLinked /\ battery = infoLevel
\* What will be shown is the level the headphones had where the program is in the signals.
KnownInv ==
    Ordered =>
        /\ toDevice # <<>> /\ toDevice[1].is = "level" => Shown
        /\ toDevice = <<>> /\ toService = <<>> =>
               /\ percentage # HandsFree!Unknown => Shown /\ infoLevel = percentage
               /\ Shown /\ percentage = HandsFree!Unknown => infoLevel = HandsFree!Initial
BatteryInv ==
    BatteryTypes /\ ConnectionInv /\ LevelInv /\ TellerInv /\ ShownInv /\ KnownInv

\* A signal that follows the ones on their way keeps what is known of the connection ...
LEMMA ConnectionAppends ==
    ASSUME ConnectionInv, NEW e \in Signals, toDevice \in Seq(Signals),
           toDevice' = Append(toDevice, e), infoLinked' = infoLinked,
           BeforeIt(e) = linked, AfterIt(e) = linked',
           percentage' # HandsFree!Unknown => linked'
    PROVE  ConnectionInv'
<1>1. toDevice' # <<>> /\ Last(toDevice') = e /\ Len(toDevice') = Len(toDevice) + 1
  BY Appended
<1>2. BeforeIt(toDevice'[1]) = infoLinked'
  <2>1. CASE toDevice = <<>>
    BY <2>1, Appended DEF ConnectionInv
  <2>2. CASE toDevice # <<>>
    BY <2>2, Appended, Taken DEF ConnectionInv
  <2> QED BY <2>1, <2>2
<1>3. ASSUME NEW i \in 1..(Len(toDevice') - 1)
      PROVE  AfterIt(toDevice'[i]) = BeforeIt(toDevice'[i + 1])
  <2>1. CASE i = Len(toDevice)
    BY <1>1, <2>1, Appended DEF ConnectionInv, Last
  <2>2. CASE i # Len(toDevice)
    BY <1>1, <2>2, Appended DEF ConnectionInv
  <2> QED BY <2>1, <2>2
<1> QED
  BY <1>1, <1>2, <1>3 DEF ConnectionInv

\* ... and of the level.
LEMMA LevelAppends ==
    ASSUME LevelInv, NEW e \in Signals, toDevice \in Seq(Signals),
           toDevice' = Append(toDevice, e), toService' = toService,
           Ordered' => Ordered, percentage' = e.level,
           Ordered => (e.is = "level" => toDevice = <<>> \/ Last(toDevice).is = "level")
    PROVE  LevelInv'
<1> SUFFICES ASSUME Ordered' PROVE LevelInv'
  BY DEF LevelInv
<1>1. toDevice' # <<>> /\ Last(toDevice') = e /\ Len(toDevice') = Len(toDevice) + 1
  BY Appended
<1>2. toService' = <<>>
  BY <1>1 DEF Ordered
<1>3. ASSUME NEW i \in 1..(Len(toDevice') - 1), toDevice'[i + 1].is = "level"
      PROVE  toDevice'[i].is = "level"
  <2>1. CASE i = Len(toDevice)
    BY <1>1, <1>3, <2>1, Appended DEF Last
  <2>2. CASE i # Len(toDevice)
    BY <1>1, <1>3, <2>2, Appended DEF LevelInv
  <2> QED BY <2>1, <2>2
<1> QED
  BY <1>1, <1>2, <1>3 DEF LevelInv

\* Threads are where their calls are, and levels are levels.
LEMMA BatteryTypesStep == BatteryInv /\ [HandsFree!Next]_HandsFree!vars => BatteryTypes'
<1> SUFFICES ASSUME BatteryInv, [HandsFree!Next]_HandsFree!vars PROVE BatteryTypes'
  OBVIOUS
<1>1. CASE HandsFree!Connects
  <2> DEFINE e == [is |-> "connected", level |-> HandsFree!Unknown]
  <2>1. /\ e \in Signals /\ toDevice' = Append(toDevice, e)
        /\ toDevice \in Seq(Signals)
    BY <1>1 DEF HandsFree!Connects, Signals, BatteryInv, BatteryTypes
  <2>2. \A i \in 1..Len(toDevice') :
            toDevice'[i].level = HandsFree!Unknown <=> toDevice'[i].is # "level"
    BY <2>1, Appended DEF BatteryInv, BatteryTypes
  <2>3. toDevice' \in Seq(Signals)
    BY <2>1, Appended
  <2> QED
    BY <1>1, <2>2, <2>3
       DEF HandsFree!Connects, HandsFree!infoVars, HandsFree!Unknown, BatteryInv,
           BatteryTypes
<1>2. CASE HandsFree!Disconnects
  <2> DEFINE e == [is |-> "disconnected", level |-> HandsFree!Unknown]
  <2>1. /\ e \in Signals /\ toDevice' = Append(toDevice, e)
        /\ toDevice \in Seq(Signals)
    BY <1>2 DEF HandsFree!Disconnects, Signals, BatteryInv, BatteryTypes
  <2>2. \A i \in 1..Len(toDevice') :
            toDevice'[i].level = HandsFree!Unknown <=> toDevice'[i].is # "level"
    BY <2>1, Appended DEF BatteryInv, BatteryTypes
  <2>3. toDevice' \in Seq(Signals)
    BY <2>1, Appended
  <2> QED
    BY <1>2, <2>2, <2>3
       DEF HandsFree!Disconnects, HandsFree!infoVars, HandsFree!Unknown, BatteryInv,
           BatteryTypes
<1>3. CASE HandsFree!Reports
  <2>1. PICK l \in Percentages \ {percentage} :
            /\ percentage' = l
            /\ IF percentage = HandsFree!Unknown
                 THEN toService' = Append(toService, l) /\ UNCHANGED toDevice
                 ELSE /\ toDevice' = Append(toDevice, [is |-> "level", level |-> l])
                      /\ UNCHANGED toService
    BY <1>3 DEF HandsFree!Reports
  <2> DEFINE e == [is |-> "level", level |-> l]
  <2>2. /\ e \in Signals /\ e.level # HandsFree!Unknown /\ e.is = "level"
        /\ toDevice \in Seq(Signals) /\ toService \in Seq(Percentages)
    BY LevelsAssumption DEF Signals, HandsFree!Unknown, BatteryInv, BatteryTypes
  <2>3. \A i \in 1..Len(toDevice') :
            toDevice'[i].level = HandsFree!Unknown <=> toDevice'[i].is # "level"
    <3>1. CASE toDevice' = toDevice
      BY <3>1 DEF BatteryInv, BatteryTypes
    <3>2. CASE toDevice' = Append(toDevice, e)
      BY <2>2, <3>2, Appended DEF BatteryInv, BatteryTypes
    <3> QED
      BY <2>1, <3>1, <3>2
  <2>5. Append(toDevice, e) \in Seq(Signals) /\ Append(toService, l) \in Seq(Percentages)
    BY <2>2, Appended
  <2>4. toDevice' \in Seq(Signals) /\ toService' \in Seq(Percentages)
    BY <2>1, <2>2, <2>5
  <2> QED
    BY <1>3, <2>1, <2>3, <2>4
       DEF HandsFree!Reports, HandsFree!infoVars, BatteryInv, BatteryTypes
<1>4. CASE HandsFree!PropertiesChanged
  <2>1. toDevice \in Seq(Signals) /\ toDevice # <<>> /\ toDevice' = Tail(toDevice)
    BY <1>4 DEF HandsFree!PropertiesChanged, BatteryInv, BatteryTypes
  <2>2. \A i \in 1..Len(toDevice') :
            toDevice'[i].level = HandsFree!Unknown <=> toDevice'[i].is # "level"
    BY <2>1, Taken DEF BatteryInv, BatteryTypes
  <2>3. /\ Head(toDevice) \in Signals
        /\ Head(toDevice).is = "level" => Head(toDevice).level \in Percentages
    <3>1. Head(toDevice) = toDevice[1] /\ 1 \in 1..Len(toDevice) /\ toDevice[1] \in Signals
      BY <2>1, Taken
    <3>2. toDevice[1].level = HandsFree!Unknown <=> toDevice[1].is # "level"
      BY <3>1 DEF BatteryInv, BatteryTypes
    <3> QED
      BY <3>1, <3>2 DEF Signals
  <2>4. infoLevel' \in Percentages \cup {HandsFree!Initial}
        /\ infoLinked' \in BOOLEAN
    BY <1>4, <2>3 DEF HandsFree!PropertiesChanged, BatteryInv, BatteryTypes
  <2>5. carried' \in [HandsFree!Threads ->
                         Percentages \cup {HandsFree!Unknown, HandsFree!Initial}]
    BY <1>4, <2>3 DEF HandsFree!PropertiesChanged, Signals, BatteryInv, BatteryTypes
  <2>6. teller' \in [HandsFree!Threads -> TellerPcs]
    BY <1>4 DEF HandsFree!PropertiesChanged, HandsFree!Goes, TellerPcs, BatteryInv, BatteryTypes
  <2>7. tellExcused' \in BOOLEAN
    BY <1>4 DEF HandsFree!PropertiesChanged, HandsFree!Unordered, BatteryInv, BatteryTypes
  <2> QED
    BY <1>4, <2>1, <2>2, <2>4, <2>5, <2>6, <2>7, Taken
       DEF HandsFree!PropertiesChanged, BatteryInv, BatteryTypes
<1>5. CASE HandsFree!InterfaceAdded
  BY <1>5, LevelsAssumption
    DEF HandsFree!InterfaceAdded, HandsFree!Goes, HandsFree!Unordered, HandsFree!Threads,
        HandsFree!Unknown, HandsFree!Initial, TellerPcs, Signals, BatteryTypes, TellerInv,
        BatteryInv
<1>6. CASE HandsFree!Asks
  BY <1>6, LevelsAssumption
    DEF HandsFree!Asks, HandsFree!Goes, HandsFree!bluezVars, HandsFree!infoVars,
        HandsFree!Threads, HandsFree!Unknown, HandsFree!Initial, TellerPcs, Signals, BatteryTypes,
        TellerInv, BatteryInv
<1>7. CASE HandsFree!Listens
  BY <1>7, LevelsAssumption
    DEF HandsFree!Listens, HandsFree!Goes, HandsFree!bluezVars, HandsFree!infoVars,
        HandsFree!Threads, HandsFree!Unknown, HandsFree!Initial, TellerPcs, Signals, BatteryTypes,
        TellerInv, BatteryInv
<1>8. ASSUME NEW t \in HandsFree!Threads, HandsFree!UpdateSingleBattery(t)
      PROVE  BatteryTypes'
  BY <1>8, LevelsAssumption
    DEF HandsFree!UpdateSingleBattery, HandsFree!Goes, HandsFree!After, HandsFree!bluezVars,
        HandsFree!infoVars, HandsFree!Threads, HandsFree!Unknown, HandsFree!Initial, TellerPcs,
        Signals, BatteryTypes, TellerInv, BatteryInv
<1>9. ASSUME NEW t \in HandsFree!Threads, HandsFree!BatteryChanged(t)
      PROVE  BatteryTypes'
  BY <1>9, LevelsAssumption
    DEF HandsFree!BatteryChanged, HandsFree!Goes, HandsFree!After, HandsFree!bluezVars,
        HandsFree!infoVars, HandsFree!Threads, HandsFree!Unknown, HandsFree!Initial, TellerPcs,
        Signals, BatteryTypes, TellerInv, BatteryInv
<1>10. CASE HandsFree!ClearBattery
  BY <1>10, LevelsAssumption
    DEF HandsFree!ClearBattery, HandsFree!Goes, HandsFree!Unknown, HandsFree!bluezVars,
        HandsFree!infoVars, HandsFree!Threads, HandsFree!Initial, TellerPcs, Signals,
        BatteryTypes, TellerInv, BatteryInv
<1>11. CASE HandsFree!Reset
  <2>1. "idle" \in TellerPcs /\ teller \in [HandsFree!Threads -> TellerPcs]
    BY DEF TellerPcs, BatteryTypes, BatteryInv
  <2>2. /\ teller' = [teller EXCEPT !["device"] = "idle"] /\ isAvailable' = FALSE
        /\ UNCHANGED <<linked, infoLinked, tellExcused, percentage, battery, infoLevel, carried,
                       toDevice, toService>>
    BY <1>11
      DEF HandsFree!Reset, HandsFree!Goes, HandsFree!bluezVars, HandsFree!infoVars
  <2>3. teller' \in [HandsFree!Threads -> TellerPcs]
    BY <2>1, <2>2
  <2> QED
    BY <2>2, <2>3 DEF BatteryTypes, BatteryInv
<1>12. CASE UNCHANGED HandsFree!vars
  BY <1>12
    DEF HandsFree!vars, HandsFree!bluezVars, HandsFree!infoVars, TellerPcs, Signals, BatteryTypes,
        TellerInv, BatteryInv, HandsFree!Threads, HandsFree!Unknown, HandsFree!Initial
<1> QED
  BY <1>1, <1>2, <1>3, <1>4, <1>5, <1>6, <1>7, <1>8, <1>9, <1>10, <1>11, <1>12 DEF HandsFree!Next

\* What the program knows of the connection keeps up with the signals on their way.
LEMMA ConnectionStep == BatteryInv /\ [HandsFree!Next]_HandsFree!vars => ConnectionInv'
<1> SUFFICES ASSUME BatteryInv, [HandsFree!Next]_HandsFree!vars PROVE ConnectionInv'
  OBVIOUS
<1>1. CASE HandsFree!Connects
  <2> DEFINE e == [is |-> "connected", level |-> HandsFree!Unknown]
  <2>1. /\ e \in Signals /\ toDevice \in Seq(Signals) /\ toDevice' = Append(toDevice, e)
        /\ infoLinked' = infoLinked /\ BeforeIt(e) = linked /\ AfterIt(e) = linked'
        /\ percentage' # HandsFree!Unknown => linked'
    BY <1>1 DEF HandsFree!Connects, HandsFree!infoVars, Signals, BeforeIt, AfterIt, BatteryInv,
             BatteryTypes, ConnectionInv
  <2>2. ConnectionInv
    BY DEF BatteryInv
  <2> QED
    BY <2>1, <2>2, ConnectionAppends
<1>2. CASE HandsFree!Disconnects
  <2> DEFINE e == [is |-> "disconnected", level |-> HandsFree!Unknown]
  <2>1. /\ e \in Signals /\ toDevice \in Seq(Signals) /\ toDevice' = Append(toDevice, e)
        /\ infoLinked' = infoLinked /\ BeforeIt(e) = linked /\ AfterIt(e) = linked'
        /\ percentage' # HandsFree!Unknown => linked'
    BY <1>2 DEF HandsFree!Disconnects, HandsFree!infoVars, Signals, BeforeIt, AfterIt, BatteryInv,
             BatteryTypes, ConnectionInv
  <2>2. ConnectionInv
    BY DEF BatteryInv
  <2> QED
    BY <2>1, <2>2, ConnectionAppends
<1>3. CASE HandsFree!Reports
  <2>1. PICK l \in Percentages \ {percentage} :
            /\ percentage' = l
            /\ IF percentage = HandsFree!Unknown
                 THEN toService' = Append(toService, l) /\ UNCHANGED toDevice
                 ELSE /\ toDevice' = Append(toDevice, [is |-> "level", level |-> l])
                      /\ UNCHANGED toService
    BY <1>3 DEF HandsFree!Reports
  <2> DEFINE e == [is |-> "level", level |-> l]
  <2>2. /\ e \in Signals /\ toDevice \in Seq(Signals) /\ BeforeIt(e) /\ AfterIt(e)
        /\ linked /\ linked' = linked /\ infoLinked' = infoLinked /\ ConnectionInv
    BY <1>3 DEF HandsFree!Reports, HandsFree!infoVars, Signals, BeforeIt, AfterIt, BatteryInv,
             BatteryTypes
  <2>3. CASE toDevice' = Append(toDevice, e)
    BY <2>2, <2>3, ConnectionAppends
  <2>4. CASE toDevice' = toDevice
    BY <2>2, <2>4 DEF ConnectionInv
  <2> QED
    BY <2>1, <2>3, <2>4
<1>4. CASE HandsFree!PropertiesChanged
  <2>1. /\ toDevice \in Seq(Signals) /\ toDevice # <<>> /\ toDevice' = Tail(toDevice)
        /\ linked' = linked /\ percentage' = percentage /\ linked \in BOOLEAN
        /\ ConnectionInv
    BY <1>4 DEF HandsFree!PropertiesChanged, BatteryInv, BatteryTypes
  <2>2. infoLinked' = AfterIt(toDevice[1])
    <3>1. Head(toDevice) = toDevice[1] /\ toDevice[1] \in Signals
      BY <2>1, Taken
    <3>2. BeforeIt(toDevice[1]) = infoLinked
      BY <2>1 DEF ConnectionInv
    <3>3. toDevice[1].is \in {"connected", "disconnected", "level"}
      BY <3>1 DEF Signals
    <3>4. infoLinked' = IF toDevice[1].is = "level" THEN infoLinked
                        ELSE toDevice[1].is = "connected"
      BY <1>4, <3>1 DEF HandsFree!PropertiesChanged
    <3> QED
      BY <3>2, <3>3, <3>4 DEF BeforeIt, AfterIt
  <2>3. toDevice' = <<>> => infoLinked' = linked'
    BY <2>1, <2>2, Taken DEF ConnectionInv
  <2>4. toDevice' # <<>> =>
            /\ BeforeIt(toDevice'[1]) = infoLinked'
            /\ AfterIt(Last(toDevice')) = linked'
    BY <2>1, <2>2, Taken DEF ConnectionInv
  <2>5. \A i \in 1..(Len(toDevice') - 1) : AfterIt(toDevice'[i]) = BeforeIt(toDevice'[i + 1])
    BY <2>1, Taken DEF ConnectionInv
  <2> QED
    BY <2>1, <2>3, <2>4, <2>5 DEF ConnectionInv
<1>5. CASE HandsFree!InterfaceAdded
  BY <1>5, LevelsAssumption
    DEF HandsFree!InterfaceAdded, HandsFree!Goes, HandsFree!Unordered, HandsFree!Threads,
        HandsFree!Unknown, HandsFree!Initial, BeforeIt, AfterIt, Last, ConnectionInv,
        BatteryTypes, Signals, BatteryInv
<1>6. CASE HandsFree!Asks
  BY <1>6, LevelsAssumption
    DEF HandsFree!Asks, HandsFree!Goes, HandsFree!bluezVars, HandsFree!infoVars,
        HandsFree!Threads, HandsFree!Unknown, HandsFree!Initial, BeforeIt, AfterIt, Last,
        ConnectionInv, BatteryTypes, Signals, BatteryInv
<1>7. CASE HandsFree!Listens
  BY <1>7, LevelsAssumption
    DEF HandsFree!Listens, HandsFree!Goes, HandsFree!bluezVars, HandsFree!infoVars,
        HandsFree!Threads, HandsFree!Unknown, HandsFree!Initial, BeforeIt, AfterIt, Last,
        ConnectionInv, BatteryTypes, Signals, BatteryInv
<1>8. ASSUME NEW t \in HandsFree!Threads, HandsFree!UpdateSingleBattery(t)
      PROVE  ConnectionInv'
  BY <1>8, LevelsAssumption
    DEF HandsFree!UpdateSingleBattery, HandsFree!Goes, HandsFree!After, HandsFree!bluezVars,
        HandsFree!infoVars, HandsFree!Threads, HandsFree!Unknown, HandsFree!Initial, BeforeIt,
        AfterIt, Last, ConnectionInv, BatteryTypes, Signals, BatteryInv
<1>9. ASSUME NEW t \in HandsFree!Threads, HandsFree!BatteryChanged(t)
      PROVE  ConnectionInv'
  BY <1>9, LevelsAssumption
    DEF HandsFree!BatteryChanged, HandsFree!Goes, HandsFree!After, HandsFree!bluezVars,
        HandsFree!infoVars, HandsFree!Threads, HandsFree!Unknown, HandsFree!Initial, BeforeIt,
        AfterIt, Last, ConnectionInv, BatteryTypes, Signals, BatteryInv
<1>10. CASE HandsFree!ClearBattery
  BY <1>10, LevelsAssumption
    DEF HandsFree!ClearBattery, HandsFree!Goes, HandsFree!Unknown, HandsFree!bluezVars,
        HandsFree!infoVars, HandsFree!Threads, HandsFree!Initial, BeforeIt, AfterIt, Last,
        ConnectionInv, BatteryTypes, Signals, BatteryInv
<1>11. CASE HandsFree!Reset
  BY <1>11, LevelsAssumption
    DEF HandsFree!Reset, HandsFree!Goes, HandsFree!bluezVars, HandsFree!infoVars,
        HandsFree!Threads, HandsFree!Unknown, HandsFree!Initial, BeforeIt, AfterIt, Last,
        ConnectionInv, BatteryTypes, Signals, BatteryInv
<1>12. CASE UNCHANGED HandsFree!vars
  BY <1>12
    DEF HandsFree!vars, HandsFree!bluezVars, HandsFree!infoVars, BeforeIt, AfterIt, Last,
        ConnectionInv, BatteryTypes, Signals, BatteryInv, HandsFree!Threads, HandsFree!Unknown,
        HandsFree!Initial
<1> QED
  BY <1>1, <1>2, <1>3, <1>4, <1>5, <1>6, <1>7, <1>8, <1>9, <1>10, <1>11, <1>12 DEF HandsFree!Next

\* So does what it knows of the level.
LEMMA LevelStep == BatteryInv /\ [HandsFree!Next]_HandsFree!vars => LevelInv'
<1> SUFFICES ASSUME BatteryInv, [HandsFree!Next]_HandsFree!vars PROVE LevelInv'
  OBVIOUS
<1>1. CASE HandsFree!Connects
  <2> DEFINE e == [is |-> "connected", level |-> HandsFree!Unknown]
  <2>1. /\ e \in Signals /\ toDevice \in Seq(Signals) /\ toDevice' = Append(toDevice, e)
        /\ toService' = toService /\ tellExcused' = tellExcused
        /\ percentage' = HandsFree!Unknown /\ e.level = HandsFree!Unknown /\ e.is # "level"
        /\ LevelInv
    BY <1>1 DEF HandsFree!Connects, Signals, BatteryInv, BatteryTypes, ConnectionInv
  <2> QED
    BY <2>1, LevelAppends DEF Ordered
<1>2. CASE HandsFree!Disconnects
  <2> DEFINE e == [is |-> "disconnected", level |-> HandsFree!Unknown]
  <2>1. /\ e \in Signals /\ toDevice \in Seq(Signals) /\ toDevice' = Append(toDevice, e)
        /\ toService' = toService /\ tellExcused' = tellExcused
        /\ percentage' = HandsFree!Unknown /\ e.level = HandsFree!Unknown /\ e.is # "level"
        /\ LevelInv
    BY <1>2 DEF HandsFree!Disconnects, Signals, BatteryInv, BatteryTypes, ConnectionInv
  <2> QED
    BY <2>1, LevelAppends DEF Ordered
<1>3. CASE HandsFree!Reports
  <2>1. PICK l \in Percentages \ {percentage} :
            /\ percentage' = l
            /\ IF percentage = HandsFree!Unknown
                 THEN toService' = Append(toService, l) /\ UNCHANGED toDevice
                 ELSE /\ toDevice' = Append(toDevice, [is |-> "level", level |-> l])
                      /\ UNCHANGED toService
    BY <1>3 DEF HandsFree!Reports
  <2>2. /\ toDevice \in Seq(Signals) /\ toService \in Seq(Percentages)
        /\ tellExcused' = tellExcused /\ LevelInv /\ l # HandsFree!Unknown /\ linked
        /\ ConnectionInv
    BY <1>3, LevelsAssumption DEF HandsFree!Reports, BatteryInv, BatteryTypes, HandsFree!Unknown
  <2>3. CASE percentage = HandsFree!Unknown
    <3>1. SUFFICES ASSUME ~tellExcused, toDevice = <<>>
                   PROVE  toService' = <<l>>
      BY <2>1, <2>2, <2>3, <3>1, Appended DEF LevelInv, Ordered
    <3>2. toService = <<>>
      BY <2>2, <2>3, <3>1 DEF LevelInv, Ordered
    <3> QED
      BY <2>1, <2>3, <3>2
  <2>4. CASE percentage # HandsFree!Unknown
    <3> DEFINE e == [is |-> "level", level |-> l]
    <3>1. e \in Signals /\ toDevice' = Append(toDevice, e) /\ toService' = toService
      BY <2>1, <2>4 DEF Signals
    <3>2. Ordered => (toDevice # <<>> => Last(toDevice).is = "level")
      BY <2>2, <2>4, Taken DEF LevelInv, BatteryInv, BatteryTypes, Last
    <3> QED
      BY <2>1, <2>2, <3>1, <3>2, LevelAppends DEF Ordered
  <2> QED
    BY <2>3, <2>4
<1>4. CASE HandsFree!PropertiesChanged
  <2>1. /\ toDevice \in Seq(Signals) /\ toDevice # <<>> /\ toDevice' = Tail(toDevice)
        /\ toService' = toService /\ percentage' = percentage
        /\ tellExcused' = (tellExcused \/ HandsFree!Unordered("device")) /\ LevelInv
    BY <1>4 DEF HandsFree!PropertiesChanged, BatteryInv, BatteryTypes
  <2>2. Ordered' => Ordered /\ toService = <<>>
    BY <2>1 DEF Ordered, HandsFree!Unordered
  <2>3. toDevice' # <<>> => Last(toDevice') = Last(toDevice)
    BY <2>1, Taken
  <2>4. ASSUME Ordered
        PROVE  \A i \in 1..(Len(toDevice') - 1) :
                   toDevice'[i + 1].is = "level" => toDevice'[i].is = "level"
    BY <2>1, <2>4, Taken DEF LevelInv
  <2> QED
    BY <2>1, <2>2, <2>3, <2>4 DEF LevelInv
<1>5. CASE HandsFree!InterfaceAdded
  <2>1. /\ toService \in Seq(Percentages) /\ toService # <<>> /\ toService' = Tail(toService)
        /\ toDevice' = toDevice /\ percentage' = percentage
        /\ tellExcused' = (tellExcused \/ HandsFree!Unordered("service")) /\ LevelInv
    BY <1>5 DEF HandsFree!InterfaceAdded, BatteryInv, BatteryTypes
  <2>2. Ordered' => Ordered /\ toDevice = <<>>
    BY <2>1 DEF Ordered, HandsFree!Unordered
  <2>3. Ordered => toService' = <<>>
    BY <2>1, Taken DEF LevelInv
  <2> QED
    BY <2>1, <2>2, <2>3 DEF LevelInv
<1>6. CASE HandsFree!Asks
  BY <1>6, LevelsAssumption
    DEF HandsFree!Asks, HandsFree!Goes, HandsFree!bluezVars, HandsFree!infoVars,
        HandsFree!Threads, HandsFree!Unknown, HandsFree!Initial, Ordered, Last, LevelInv,
        ConnectionInv, BatteryTypes, Signals, BatteryInv
<1>7. CASE HandsFree!Listens
  BY <1>7, LevelsAssumption
    DEF HandsFree!Listens, HandsFree!Goes, HandsFree!bluezVars, HandsFree!infoVars,
        HandsFree!Threads, HandsFree!Unknown, HandsFree!Initial, Ordered, Last, LevelInv,
        ConnectionInv, BatteryTypes, Signals, BatteryInv
<1>8. ASSUME NEW t \in HandsFree!Threads, HandsFree!UpdateSingleBattery(t)
      PROVE  LevelInv'
  BY <1>8, LevelsAssumption
    DEF HandsFree!UpdateSingleBattery, HandsFree!Goes, HandsFree!After, HandsFree!bluezVars,
        HandsFree!infoVars, HandsFree!Threads, HandsFree!Unknown, HandsFree!Initial, Ordered,
        Last, LevelInv, ConnectionInv, BatteryTypes, Signals, BatteryInv
<1>9. ASSUME NEW t \in HandsFree!Threads, HandsFree!BatteryChanged(t)
      PROVE  LevelInv'
  BY <1>9, LevelsAssumption
    DEF HandsFree!BatteryChanged, HandsFree!Goes, HandsFree!After, HandsFree!bluezVars,
        HandsFree!infoVars, HandsFree!Threads, HandsFree!Unknown, HandsFree!Initial, Ordered,
        Last, LevelInv, ConnectionInv, BatteryTypes, Signals, BatteryInv
<1>10. CASE HandsFree!ClearBattery
  BY <1>10, LevelsAssumption
    DEF HandsFree!ClearBattery, HandsFree!Goes, HandsFree!Unknown, HandsFree!bluezVars,
        HandsFree!infoVars, HandsFree!Threads, HandsFree!Initial, Ordered, Last, LevelInv,
        ConnectionInv, BatteryTypes, Signals, BatteryInv
<1>11. CASE HandsFree!Reset
  BY <1>11, LevelsAssumption
    DEF HandsFree!Reset, HandsFree!Goes, HandsFree!bluezVars, HandsFree!infoVars,
        HandsFree!Threads, HandsFree!Unknown, HandsFree!Initial, Ordered, Last, LevelInv,
        ConnectionInv, BatteryTypes, Signals, BatteryInv
<1>12. CASE UNCHANGED HandsFree!vars
  BY <1>12
    DEF HandsFree!vars, HandsFree!bluezVars, HandsFree!infoVars, Ordered, Last, LevelInv,
        ConnectionInv, BatteryTypes, Signals, BatteryInv, HandsFree!Threads, HandsFree!Unknown,
        HandsFree!Initial
<1> QED
  BY <1>1, <1>2, <1>3, <1>4, <1>5, <1>6, <1>7, <1>8, <1>9, <1>10, <1>11, <1>12 DEF HandsFree!Next

\* Threads do what is theirs.
LEMMA TellerStep == BatteryInv /\ [HandsFree!Next]_HandsFree!vars => TellerInv'
<1> SUFFICES ASSUME BatteryInv, [HandsFree!Next]_HandsFree!vars PROVE TellerInv'
  OBVIOUS
<1>1. CASE HandsFree!Connects
  BY <1>1, LevelsAssumption
    DEF HandsFree!Connects, HandsFree!Count, HandsFree!Unknown, HandsFree!infoVars,
        HandsFree!Threads, HandsFree!Initial, TellerInv, BatteryTypes, TellerPcs, BatteryInv
<1>2. CASE HandsFree!Disconnects
  BY <1>2, LevelsAssumption
    DEF HandsFree!Disconnects, HandsFree!Count, HandsFree!Unknown, HandsFree!infoVars,
        HandsFree!Threads, HandsFree!Initial, TellerInv, BatteryTypes, TellerPcs, BatteryInv
<1>3. CASE HandsFree!Reports
  BY <1>3, LevelsAssumption
    DEF HandsFree!Reports, HandsFree!Count, HandsFree!Unknown, HandsFree!infoVars,
        HandsFree!Threads, HandsFree!Initial, TellerInv, BatteryTypes, TellerPcs, BatteryInv
<1>4. CASE HandsFree!PropertiesChanged
  BY <1>4, LevelsAssumption
    DEF HandsFree!PropertiesChanged, HandsFree!Goes, HandsFree!Unordered, HandsFree!Threads,
        HandsFree!Unknown, HandsFree!Initial, TellerInv, BatteryTypes, TellerPcs, BatteryInv
<1>5. CASE HandsFree!InterfaceAdded
  BY <1>5, LevelsAssumption
    DEF HandsFree!InterfaceAdded, HandsFree!Goes, HandsFree!Unordered, HandsFree!Threads,
        HandsFree!Unknown, HandsFree!Initial, TellerInv, BatteryTypes, TellerPcs, BatteryInv
<1>6. CASE HandsFree!Asks
  BY <1>6, LevelsAssumption
    DEF HandsFree!Asks, HandsFree!Goes, HandsFree!bluezVars, HandsFree!infoVars,
        HandsFree!Threads, HandsFree!Unknown, HandsFree!Initial, TellerInv, BatteryTypes,
        TellerPcs, BatteryInv
<1>7. CASE HandsFree!Listens
  BY <1>7, LevelsAssumption
    DEF HandsFree!Listens, HandsFree!Goes, HandsFree!bluezVars, HandsFree!infoVars,
        HandsFree!Threads, HandsFree!Unknown, HandsFree!Initial, TellerInv, BatteryTypes,
        TellerPcs, BatteryInv
<1>8. ASSUME NEW t \in HandsFree!Threads, HandsFree!UpdateSingleBattery(t)
      PROVE  TellerInv'
  BY <1>8, LevelsAssumption
    DEF HandsFree!UpdateSingleBattery, HandsFree!Goes, HandsFree!After, HandsFree!bluezVars,
        HandsFree!infoVars, HandsFree!Threads, HandsFree!Unknown, HandsFree!Initial, TellerInv,
        BatteryTypes, TellerPcs, BatteryInv
<1>9. ASSUME NEW t \in HandsFree!Threads, HandsFree!BatteryChanged(t)
      PROVE  TellerInv'
  BY <1>9, LevelsAssumption
    DEF HandsFree!BatteryChanged, HandsFree!Goes, HandsFree!After, HandsFree!bluezVars,
        HandsFree!infoVars, HandsFree!Threads, HandsFree!Unknown, HandsFree!Initial, TellerInv,
        BatteryTypes, TellerPcs, BatteryInv
<1>10. CASE HandsFree!ClearBattery
  BY <1>10, LevelsAssumption
    DEF HandsFree!ClearBattery, HandsFree!Goes, HandsFree!Unknown, HandsFree!bluezVars,
        HandsFree!infoVars, HandsFree!Threads, HandsFree!Initial, TellerInv, BatteryTypes,
        TellerPcs, BatteryInv
<1>11. CASE HandsFree!Reset
  BY <1>11, LevelsAssumption
    DEF HandsFree!Reset, HandsFree!Goes, HandsFree!bluezVars, HandsFree!infoVars,
        HandsFree!Threads, HandsFree!Unknown, HandsFree!Initial, TellerInv, BatteryTypes,
        TellerPcs, BatteryInv
<1>12. CASE UNCHANGED HandsFree!vars
  BY <1>12
    DEF HandsFree!vars, HandsFree!bluezVars, HandsFree!infoVars, TellerInv, BatteryTypes,
        TellerPcs, BatteryInv, HandsFree!Threads, HandsFree!Unknown, HandsFree!Initial
<1> QED
  BY <1>1, <1>2, <1>3, <1>4, <1>5, <1>6, <1>7, <1>8, <1>9, <1>10, <1>11, <1>12 DEF HandsFree!Next

\* What is shown is what the program knows, or will be.
LEMMA ShownStep == BatteryInv /\ [HandsFree!Next]_HandsFree!vars => ShownInv'
<1> SUFFICES ASSUME BatteryInv, [HandsFree!Next]_HandsFree!vars PROVE ShownInv'
  OBVIOUS
<1>1. CASE HandsFree!Connects
  BY <1>1, LevelsAssumption
    DEF HandsFree!Connects, HandsFree!Count, HandsFree!Unknown, HandsFree!infoVars,
        HandsFree!Threads, HandsFree!Initial, Tells, Telling, ShownInv, BatteryTypes, Signals,
        TellerPcs, TellerInv, ConnectionInv, BeforeIt, BatteryInv
<1>2. CASE HandsFree!Disconnects
  BY <1>2, LevelsAssumption
    DEF HandsFree!Disconnects, HandsFree!Count, HandsFree!Unknown, HandsFree!infoVars,
        HandsFree!Threads, HandsFree!Initial, Tells, Telling, ShownInv, BatteryTypes, Signals,
        TellerPcs, TellerInv, ConnectionInv, BeforeIt, BatteryInv
<1>3. CASE HandsFree!Reports
  BY <1>3, LevelsAssumption
    DEF HandsFree!Reports, HandsFree!Count, HandsFree!Unknown, HandsFree!infoVars,
        HandsFree!Threads, HandsFree!Initial, Tells, Telling, ShownInv, BatteryTypes, Signals,
        TellerPcs, TellerInv, ConnectionInv, BeforeIt, BatteryInv
<1>4. CASE HandsFree!PropertiesChanged
  <2> SUFFICES ASSUME ~tellExcused' PROVE ShownInv'
    BY DEF ShownInv
  <2>1. /\ Head(toDevice) = toDevice[1] /\ toDevice[1] \in Signals /\ toDevice # <<>>
        /\ toDevice \in Seq(Signals) /\ toDevice' = Tail(toDevice) /\ 1 \in 1..Len(toDevice)
    BY <1>4, Taken DEF HandsFree!PropertiesChanged, BatteryInv, BatteryTypes
  <2>2. /\ BeforeIt(toDevice[1]) = infoLinked
        /\ toDevice[1].level = HandsFree!Unknown <=> toDevice[1].is # "level"
    BY <2>1 DEF BatteryInv, BatteryTypes, ConnectionInv
  <2>3. /\ ~tellExcused /\ toService = <<>> /\ teller["creator"] = "done"
        /\ teller["device"] = "idle" /\ teller["service"] = "idle" /\ ~Telling
    BY <1>4 DEF HandsFree!PropertiesChanged, HandsFree!Goes, HandsFree!Unordered,
             HandsFree!Threads, Telling, Tells
  <2>4. /\ UNCHANGED <<battery, isAvailable, percentage, toService, linked>>
        /\ carried' = [carried EXCEPT !["device"] = toDevice[1].level]
    BY <1>4, <2>1 DEF HandsFree!PropertiesChanged
  <2>5. /\ toDevice[1].is = "level" =>
               /\ teller' = [teller EXCEPT !["device"] = "update"]
               /\ infoLinked' = infoLinked /\ infoLevel' = toDevice[1].level
        /\ toDevice[1].is = "connected" =>
               teller' = [teller EXCEPT !["device"] = "idle"]
                   /\ infoLinked' /\ infoLevel' = infoLevel
        /\ toDevice[1].is = "disconnected" =>
               teller' = [teller EXCEPT !["device"] = "clear"]
                   /\ ~infoLinked' /\ infoLevel' = infoLevel
    BY <1>4, <2>1, <2>3 DEF HandsFree!PropertiesChanged, HandsFree!Goes
  <2>6. /\ teller \in [HandsFree!Threads -> TellerPcs]
        /\ carried \in [HandsFree!Threads ->
                            Percentages \cup {HandsFree!Unknown, HandsFree!Initial}]
    BY DEF BatteryInv, BatteryTypes
  <2>7. CASE toDevice[1].is = "level"
    <3>1. infoLinked
      BY <2>2, <2>7 DEF BeforeIt
    <3> QED
      BY <2>3, <2>4, <2>5, <2>6, <2>7, <3>1
         DEF ShownInv, BatteryInv, HandsFree!Threads, Tells, Telling
  <2>8. CASE toDevice[1].is = "connected"
    <3>1. ~infoLinked /\ ~isAvailable
      BY <2>2, <2>3, <2>8 DEF BeforeIt, ShownInv, BatteryInv
    <3> QED
      BY <2>3, <2>4, <2>5, <2>6, <2>8, <3>1
         DEF ShownInv, BatteryInv, HandsFree!Threads, Tells, Telling
  <2>9. CASE toDevice[1].is = "disconnected"
    BY <2>3, <2>4, <2>5, <2>6, <2>9
       DEF ShownInv, BatteryInv, HandsFree!Threads, Tells, Telling
  <2> QED
    BY <2>1, <2>7, <2>8, <2>9 DEF Signals
<1>5. CASE HandsFree!InterfaceAdded
  <2> SUFFICES ASSUME ~tellExcused' PROVE ShownInv'
    BY DEF ShownInv
  <2>1. Head(toService) = toService[1] /\ toService # <<>>
    BY <1>5, Taken DEF HandsFree!InterfaceAdded, BatteryInv, BatteryTypes
  <2>2. /\ ~tellExcused /\ toDevice = <<>> /\ teller["creator"] = "done"
        /\ teller["device"] = "idle" /\ teller["service"] = "idle"
        /\ teller' = [teller EXCEPT !["service"] = "update"]
    BY <1>5 DEF HandsFree!InterfaceAdded, HandsFree!Goes, HandsFree!Unordered
  <2>3. infoLinked
    BY <2>1, <2>2 DEF BatteryInv, ConnectionInv, LevelInv, Ordered
  <2>4. /\ UNCHANGED <<battery, isAvailable, infoLinked>> /\ infoLevel' = Head(toService)
        /\ carried' = [carried EXCEPT !["service"] = Head(toService)]
    BY <1>5 DEF HandsFree!InterfaceAdded
  <2> QED
    BY <2>2, <2>3, <2>4
       DEF ShownInv, BatteryInv, BatteryTypes, HandsFree!Threads, Tells, Telling
<1>6. CASE HandsFree!Asks
  BY <1>6, LevelsAssumption
    DEF HandsFree!Asks, HandsFree!Goes, HandsFree!bluezVars, HandsFree!infoVars,
        HandsFree!Threads, HandsFree!Unknown, HandsFree!Initial, Tells, Telling, ShownInv,
        BatteryTypes, Signals, TellerPcs, TellerInv, ConnectionInv, BeforeIt, BatteryInv
<1>7. CASE HandsFree!Listens
  BY <1>7, LevelsAssumption
    DEF HandsFree!Listens, HandsFree!Goes, HandsFree!bluezVars, HandsFree!infoVars,
        HandsFree!Threads, HandsFree!Unknown, HandsFree!Initial, Tells, Telling, ShownInv,
        BatteryTypes, Signals, TellerPcs, TellerInv, ConnectionInv, BeforeIt, BatteryInv
<1>8. ASSUME NEW t \in HandsFree!Threads, HandsFree!UpdateSingleBattery(t)
      PROVE  ShownInv'
  BY <1>8, LevelsAssumption
    DEF HandsFree!UpdateSingleBattery, HandsFree!Goes, HandsFree!After, HandsFree!bluezVars,
        HandsFree!infoVars, HandsFree!Threads, HandsFree!Unknown, HandsFree!Initial, Tells,
        Telling, ShownInv, BatteryTypes, Signals, TellerPcs, TellerInv, ConnectionInv, BeforeIt,
        BatteryInv
<1>9. ASSUME NEW t \in HandsFree!Threads, HandsFree!BatteryChanged(t)
      PROVE  ShownInv'
  BY <1>9, LevelsAssumption
    DEF HandsFree!BatteryChanged, HandsFree!Goes, HandsFree!After, HandsFree!bluezVars,
        HandsFree!infoVars, HandsFree!Threads, HandsFree!Unknown, HandsFree!Initial, Tells,
        Telling, ShownInv, BatteryTypes, Signals, TellerPcs, TellerInv, ConnectionInv, BeforeIt,
        BatteryInv
<1>10. CASE HandsFree!ClearBattery
  BY <1>10, LevelsAssumption
    DEF HandsFree!ClearBattery, HandsFree!Goes, HandsFree!Unknown, HandsFree!bluezVars,
        HandsFree!infoVars, HandsFree!Threads, HandsFree!Initial, Tells, Telling, ShownInv,
        BatteryTypes, Signals, TellerPcs, TellerInv, ConnectionInv, BeforeIt, BatteryInv
<1>11. CASE HandsFree!Reset
  BY <1>11, LevelsAssumption
    DEF HandsFree!Reset, HandsFree!Goes, HandsFree!bluezVars, HandsFree!infoVars,
        HandsFree!Threads, HandsFree!Unknown, HandsFree!Initial, Tells, Telling, ShownInv,
        BatteryTypes, Signals, TellerPcs, TellerInv, ConnectionInv, BeforeIt, BatteryInv
<1>12. CASE UNCHANGED HandsFree!vars
  BY <1>12
    DEF HandsFree!vars, HandsFree!bluezVars, HandsFree!infoVars, Tells, Telling, ShownInv,
        BatteryTypes, Signals, TellerPcs, TellerInv, ConnectionInv, BeforeIt, BatteryInv,
        HandsFree!Threads, HandsFree!Unknown, HandsFree!Initial
<1> QED
  BY <1>1, <1>2, <1>3, <1>4, <1>5, <1>6, <1>7, <1>8, <1>9, <1>10, <1>11, <1>12 DEF HandsFree!Next

\* The level the program knows is the headphones'.
LEMMA KnownStep == BatteryInv /\ [HandsFree!Next]_HandsFree!vars => KnownInv'
<1> SUFFICES ASSUME BatteryInv, [HandsFree!Next]_HandsFree!vars PROVE KnownInv'
  OBVIOUS
<1>1. CASE HandsFree!Connects
  <2> DEFINE e == [is |-> "connected", level |-> HandsFree!Unknown]
  <2>1. toDevice \in Seq(Signals) /\ e \in Signals /\ e.is # "level"
    BY LevelsAssumption DEF HandsFree!Unknown, BatteryTypes, BatteryInv, Signals
  <2>a. /\ toDevice' = Append(toDevice, e)
        /\ UNCHANGED <<tellExcused, toService, teller, infoLinked, isAvailable>>
    BY <1>1 DEF HandsFree!Connects, HandsFree!infoVars
  <2>2. toDevice' # <<>> /\ toDevice'[1] = IF toDevice = <<>> THEN e ELSE toDevice[1]
    <3> HIDE DEF e
    <3> QED
      BY <2>1, <2>a, Appended
  <2> HIDE DEF e
  <2>3. Shown' = Shown
    BY <2>a DEF Shown, Telling, Tells
  <2>4. Ordered' => Ordered
    BY <2>a, <2>2 DEF Ordered
  <2> QED
    BY <2>1, <2>2, <2>3, <2>4 DEF KnownInv, BatteryInv
<1>2. CASE HandsFree!Disconnects
  BY <1>2, LevelsAssumption
    DEF HandsFree!Disconnects, HandsFree!Count, HandsFree!Unknown, HandsFree!infoVars,
        HandsFree!Threads, HandsFree!Initial, Ordered, Shown, Telling, Tells, KnownInv, LevelInv,
        ShownInv, TellerInv, ConnectionInv, BatteryTypes, Signals, TellerPcs, BeforeIt, AfterIt,
        BatteryInv
<1>3. CASE HandsFree!Reports
  <2> SUFFICES ASSUME Ordered' PROVE KnownInv'
    BY DEF KnownInv
  <2>1. PICK l \in Percentages \ {percentage} :
            /\ percentage' = l
            /\ IF percentage = HandsFree!Unknown
                 THEN toService' = Append(toService, l) /\ UNCHANGED toDevice
                 ELSE /\ toDevice' = Append(toDevice, [is |-> "level", level |-> l])
                      /\ UNCHANGED toService
    BY <1>3 DEF HandsFree!Reports
  <2>2. UNCHANGED <<linked, infoLinked, infoLevel, teller, isAvailable, tellExcused>>
    BY <1>3 DEF HandsFree!Reports, HandsFree!infoVars
  <2>3. Shown' = Shown /\ toDevice \in Seq(Signals) /\ toService \in Seq(Percentages)
    BY <2>2 DEF Shown, Telling, Tells, BatteryInv, BatteryTypes
  <2>4. CASE percentage = HandsFree!Unknown
    <3>1. toService' # <<>> /\ toDevice' = <<>>
      BY <2>1, <2>3, <2>4, Appended DEF Ordered
    <3> QED
      BY <3>1 DEF KnownInv
  <2>5. CASE percentage # HandsFree!Unknown
    <3> DEFINE e == [is |-> "level", level |-> l]
    <3>1. /\ e \in Signals /\ toDevice' = Append(toDevice, e)
          /\ toDevice' # <<>> /\ toService' = <<>> /\ toService = <<>>
      BY <2>1, <2>3, <2>5, Appended DEF Signals, Ordered
    <3>2. Ordered
      BY <2>2, <3>1 DEF Ordered
    <3>3. CASE toDevice = <<>>
      BY <2>3, <2>5, <3>1, <3>2, <3>3 DEF KnownInv, BatteryInv
    <3>4. CASE toDevice # <<>>
      <4>1. toDevice'[1] = toDevice[1]
        BY <2>3, <3>1, <3>4, Appended, Taken
      <4> QED
        BY <2>3, <3>1, <3>2, <3>4, <4>1 DEF KnownInv, BatteryInv
    <3> QED
      BY <3>3, <3>4
  <2> QED
    BY <2>4, <2>5
<1>4. CASE HandsFree!PropertiesChanged
  <2> SUFFICES ASSUME Ordered' PROVE KnownInv'
    BY DEF KnownInv
  <2>1. /\ Head(toDevice) = toDevice[1] /\ toDevice[1] \in Signals /\ toDevice # <<>>
        /\ toDevice \in Seq(Signals) /\ toDevice' = Tail(toDevice) /\ 1 \in 1..Len(toDevice)
    BY <1>4, Taken DEF HandsFree!PropertiesChanged, BatteryInv, BatteryTypes
  <2>2. /\ BeforeIt(toDevice[1]) = infoLinked
        /\ toDevice[1].level = HandsFree!Unknown <=> toDevice[1].is # "level"
    BY <2>1 DEF BatteryInv, BatteryTypes, ConnectionInv
  <2>3. /\ ~tellExcused /\ toService = <<>> /\ teller["creator"] = "done"
        /\ teller["device"] = "idle" /\ teller["service"] = "idle" /\ ~Telling
    BY <1>4 DEF HandsFree!PropertiesChanged, HandsFree!Goes, HandsFree!Unordered,
             HandsFree!Threads, Telling, Tells, Ordered
  <2>4. /\ UNCHANGED <<battery, isAvailable, percentage, toService, linked>>
        /\ carried' = [carried EXCEPT !["device"] = toDevice[1].level]
    BY <1>4, <2>1 DEF HandsFree!PropertiesChanged
  <2>5. /\ toDevice[1].is = "level" =>
               /\ teller' = [teller EXCEPT !["device"] = "update"]
               /\ infoLinked' = infoLinked /\ infoLevel' = toDevice[1].level
        /\ toDevice[1].is = "connected" =>
               teller' = [teller EXCEPT !["device"] = "idle"]
                   /\ infoLinked' /\ infoLevel' = infoLevel
        /\ toDevice[1].is = "disconnected" =>
               teller' = [teller EXCEPT !["device"] = "clear"]
                   /\ ~infoLinked' /\ infoLevel' = infoLevel
    BY <1>4, <2>1, <2>3 DEF HandsFree!PropertiesChanged, HandsFree!Goes
  <2>6. /\ teller \in [HandsFree!Threads -> TellerPcs]
        /\ carried \in [HandsFree!Threads ->
                            Percentages \cup {HandsFree!Unknown, HandsFree!Initial}]
    BY DEF BatteryInv, BatteryTypes
  <2>7. Ordered
    BY <2>3 DEF Ordered
  <2>8. /\ toDevice' = <<>> => Last(toDevice) = toDevice[1]
        /\ toDevice' # <<>> => toDevice'[1] = toDevice[2] /\ 1 \in 1..(Len(toDevice) - 1)
    BY <2>1, Taken
  <2>9. /\ toDevice' = <<>> => percentage = toDevice[1].level
        /\ toDevice' # <<>> => (toDevice'[1].is = "level" => toDevice[1].is = "level")
    BY <2>1, <2>7, <2>8 DEF LevelInv, BatteryInv
  <2>10. CASE toDevice[1].is = "level"
    BY <2>2, <2>3, <2>4, <2>5, <2>6, <2>9, <2>10
       DEF KnownInv, Shown, Telling, Tells, HandsFree!Threads
  <2>11. CASE toDevice[1].is = "connected"
    <3>1. ~infoLinked /\ ~isAvailable
      BY <2>2, <2>3, <2>11 DEF BeforeIt, ShownInv, BatteryInv
    <3>2. ~Shown'
      BY <2>3, <2>4, <2>5, <2>6, <2>11, <3>1 DEF Shown, Telling, Tells, HandsFree!Threads
    <3> QED
      BY <2>2, <2>4, <2>9, <2>11, <3>2 DEF KnownInv
  <2>12. CASE toDevice[1].is = "disconnected"
    <3>1. ~Shown'
      BY <2>3, <2>4, <2>5, <2>6, <2>12 DEF Shown, Telling, Tells, HandsFree!Threads
    <3> QED
      BY <2>2, <2>4, <2>9, <2>12, <3>1 DEF KnownInv
  <2> QED
    BY <2>1, <2>10, <2>11, <2>12 DEF Signals
<1>5. CASE HandsFree!InterfaceAdded
  BY <1>5, LevelsAssumption
    DEF HandsFree!InterfaceAdded, HandsFree!Goes, HandsFree!Unordered, HandsFree!Threads,
        HandsFree!Unknown, HandsFree!Initial, Ordered, Shown, Telling, Tells, KnownInv, LevelInv,
        ShownInv, TellerInv, ConnectionInv, BatteryTypes, Signals, TellerPcs, BeforeIt, AfterIt,
        BatteryInv
<1>6. CASE HandsFree!Asks
  BY <1>6, LevelsAssumption
    DEF HandsFree!Asks, HandsFree!Goes, HandsFree!bluezVars, HandsFree!infoVars,
        HandsFree!Threads, HandsFree!Unknown, HandsFree!Initial, Ordered, Shown, Telling, Tells,
        KnownInv, LevelInv, ShownInv, TellerInv, ConnectionInv, BatteryTypes, Signals, TellerPcs,
        BeforeIt, AfterIt, BatteryInv
<1>7. CASE HandsFree!Listens
  BY <1>7, LevelsAssumption
    DEF HandsFree!Listens, HandsFree!Goes, HandsFree!bluezVars, HandsFree!infoVars,
        HandsFree!Threads, HandsFree!Unknown, HandsFree!Initial, Ordered, Shown, Telling, Tells,
        KnownInv, LevelInv, ShownInv, TellerInv, ConnectionInv, BatteryTypes, Signals, TellerPcs,
        BeforeIt, AfterIt, BatteryInv
<1>8. ASSUME NEW t \in HandsFree!Threads, HandsFree!UpdateSingleBattery(t)
      PROVE  KnownInv'
  BY <1>8, LevelsAssumption
    DEF HandsFree!UpdateSingleBattery, HandsFree!Goes, HandsFree!After, HandsFree!bluezVars,
        HandsFree!infoVars, HandsFree!Threads, HandsFree!Unknown, HandsFree!Initial, Ordered,
        Shown, Telling, Tells, KnownInv, LevelInv, ShownInv, TellerInv, ConnectionInv,
        BatteryTypes, Signals, TellerPcs, BeforeIt, AfterIt, BatteryInv
<1>9. ASSUME NEW t \in HandsFree!Threads, HandsFree!BatteryChanged(t)
      PROVE  KnownInv'
  BY <1>9, LevelsAssumption
    DEF HandsFree!BatteryChanged, HandsFree!Goes, HandsFree!After, HandsFree!bluezVars,
        HandsFree!infoVars, HandsFree!Threads, HandsFree!Unknown, HandsFree!Initial, Ordered,
        Shown, Telling, Tells, KnownInv, LevelInv, ShownInv, TellerInv, ConnectionInv,
        BatteryTypes, Signals, TellerPcs, BeforeIt, AfterIt, BatteryInv
<1>10. CASE HandsFree!ClearBattery
  BY <1>10, LevelsAssumption
    DEF HandsFree!ClearBattery, HandsFree!Goes, HandsFree!Unknown, HandsFree!bluezVars,
        HandsFree!infoVars, HandsFree!Threads, HandsFree!Initial, Ordered, Shown, Telling, Tells,
        KnownInv, LevelInv, ShownInv, TellerInv, ConnectionInv, BatteryTypes, Signals, TellerPcs,
        BeforeIt, AfterIt, BatteryInv
<1>11. CASE HandsFree!Reset
  BY <1>11, LevelsAssumption
    DEF HandsFree!Reset, HandsFree!Goes, HandsFree!bluezVars, HandsFree!infoVars,
        HandsFree!Threads, HandsFree!Unknown, HandsFree!Initial, Ordered, Shown, Telling, Tells,
        KnownInv, LevelInv, ShownInv, TellerInv, ConnectionInv, BatteryTypes, Signals, TellerPcs,
        BeforeIt, AfterIt, BatteryInv
<1>12. CASE UNCHANGED HandsFree!vars
  BY <1>12
    DEF HandsFree!vars, HandsFree!bluezVars, HandsFree!infoVars, Ordered, Shown, Telling, Tells,
        KnownInv, LevelInv, ShownInv, TellerInv, ConnectionInv, BatteryTypes, Signals, TellerPcs,
        BeforeIt, AfterIt, BatteryInv, HandsFree!Threads, HandsFree!Unknown, HandsFree!Initial
<1> QED
  BY <1>1, <1>2, <1>3, <1>4, <1>5, <1>6, <1>7, <1>8, <1>9, <1>10, <1>11, <1>12 DEF HandsFree!Next

LEMMA BatteryInvariance == HandsFree!Spec => []BatteryInv
<1>1. HandsFree!Init => BatteryInv
  <2> SUFFICES ASSUME HandsFree!Init PROVE BatteryInv
    OBVIOUS
  <2>1. /\ teller["creator"] = "ask" /\ teller["device"] = "idle" /\ teller["service"] = "idle"
    BY DEF HandsFree!Init, HandsFree!Threads
  <2>2. BatteryTypes
    <3>1. teller \in [HandsFree!Threads -> TellerPcs]
      BY DEF HandsFree!Init, TellerPcs
    <3>2. carried \in [HandsFree!Threads ->
                          Percentages \cup {HandsFree!Unknown, HandsFree!Initial}]
      BY DEF HandsFree!Init
    <3>3. /\ toDevice \in Seq(Signals) /\ toService \in Seq(Percentages)
          /\ \A i \in 1..Len(toDevice) :
                 toDevice[i].level = HandsFree!Unknown <=> toDevice[i].is # "level"
      BY DEF HandsFree!Init
    <3>4. /\ linked \in BOOLEAN /\ infoLinked \in BOOLEAN /\ isAvailable \in BOOLEAN
          /\ tellExcused \in BOOLEAN
          /\ percentage \in Percentages \cup {HandsFree!Unknown}
          /\ battery \in Percentages \cup {HandsFree!Unknown, HandsFree!Initial}
          /\ infoLevel \in Percentages \cup {HandsFree!Initial}
      BY DEF HandsFree!Init
    <3> QED
      BY <3>1, <3>2, <3>3, <3>4 DEF BatteryTypes
  <2>3. ConnectionInv /\ LevelInv /\ TellerInv
    BY <2>1 DEF ConnectionInv, LevelInv, TellerInv, Ordered, HandsFree!Init
  <2>4. ShownInv
    BY <2>1 DEF ShownInv, Tells, Telling, HandsFree!Init, HandsFree!Threads
  <2>5. KnownInv
    BY <2>1
      DEF KnownInv, Ordered, Shown, Tells, Telling, HandsFree!Init, HandsFree!Threads
  <2> QED
    BY <2>2, <2>3, <2>4, <2>5 DEF BatteryInv
<1>2. BatteryInv /\ [HandsFree!Next]_HandsFree!vars => BatteryInv'
  BY BatteryTypesStep, ConnectionStep, LevelStep, TellerStep, ShownStep, KnownStep
    DEF BatteryInv
<1> QED
  BY <1>1, <1>2, PTL DEF HandsFree!Spec

\* The battery that is shown is the headphones' last one: DBusDeviceInfo and
\* BhfBatteryCapability, for every stream of signals.
THEOREM BatteryIsTrue == PartSpec => []BatteryTrue
<1>1. BatteryInv => BatteryTrue
  <2> SUFFICES ASSUME BatteryInv PROVE HandsFree!TypeOK /\ HandsFree!BatteryTrue
    BY DEF BatteryTrue
  <2>1. HandsFree!TypeOK
    BY DEF BatteryInv, BatteryTypes, HandsFree!TypeOK
  <2> SUFFICES ASSUME HandsFree!AtRest, ~tellExcused PROVE HandsFree!BatteryTrue
    BY <2>1 DEF HandsFree!BatteryTrue
  <2>2. /\ teller["creator"] = "done" /\ teller["device"] = "idle" /\ teller["service"] = "idle"
        /\ toDevice = <<>> /\ toService = <<>>
    BY DEF HandsFree!AtRest, HandsFree!Threads
  <2>3. ~Telling /\ Ordered /\ (Shown <=> isAvailable)
    BY <2>2 DEF Telling, Tells, Ordered, Shown, HandsFree!Threads
  <2>4. isAvailable => infoLinked /\ battery = infoLevel
    BY <2>2, <2>3 DEF BatteryInv, ShownInv
  <2>5. infoLinked = linked
    BY <2>2 DEF BatteryInv, ConnectionInv
  <2>6. /\ percentage # HandsFree!Unknown => isAvailable /\ infoLevel = percentage
        /\ isAvailable /\ percentage = HandsFree!Unknown => infoLevel = HandsFree!Initial
    BY <2>2, <2>3 DEF BatteryInv, KnownInv
  <2> QED
    BY <2>4, <2>5, <2>6 DEF HandsFree!BatteryTrue
<1> QED
  BY <1>1, BatteryInvariance, PartsOfPeriphery, PTL

(***************************************************************************)
(* The preferences: the capabilities that are kept in the settings file.   *)
(***************************************************************************)
\* What the record of such a capability says: nothing comes from the headphones, what a request or
\* the file may have is turned into a number that stays as it is, and what is applied can be sent.
Given(c) ==
    /\ c.rule = "stored" /\ c.reports = {} /\ c.noise = {} /\ DOMAIN c.read = {}
    /\ c.lacks = {}
    /\ c.asked \subseteq DOMAIN c.kept
    /\ \A v \in DOMAIN c.kept :
           /\ c.kept[v] \in DOMAIN c.kept /\ c.kept[v] \in Int
           /\ c.kept[c.kept[v]] = c.kept[v]
    /\ c.applied \subseteq DOMAIN c.send
    /\ \A v \in DOMAIN c.send : c.send[v] # Preference!Hello
    /\ c.done = [p \in {c.send[v] : v \in DOMAIN c.send} |-> {p}]

\* No setting is sent the way notifications are asked for.
LEMMA SettingSent ==
    ASSUME NEW name, NEW b \in Int
    PROVE  Preference!Setting(name, <<b, 0, 0, 0>>) # Preference!Hello
<1>1. Preference!Setting(name, <<b, 0, 0, 0>>)[5] = 9
  BY DEF Preference!Setting, Preference!Packet, Preference!AapCmd
<1>2. Preference!Hello[5] = 15
  BY DEF Preference!Hello, Preference!AapEnableNotifications, Preference!Packet, Preference!AapCmd
<1> QED
  BY <1>1, <1>2

\* A capability with such a setting, whose packets a function of its values tells apart from that.
LEMMA PreferenceGiven ==
    ASSUME NEW default, NEW keeps, NEW asked, NEW ignored, NEW send, NEW applied,
           asked \subseteq DOMAIN keeps, applied \subseteq DOMAIN send,
           \A v \in DOMAIN keeps : /\ keeps[v] \in DOMAIN keeps /\ keeps[v] \in Int
                                 /\ keeps[keeps[v]] = keeps[v],
           \A v \in DOMAIN send : send[v] # Preference!Hello
    PROVE  Given(Preference!Preference(default, keeps, asked, ignored, send, applied))
BY DEF Given, Preference!Preference

\* The bits of stem control, from 0 to 15.
LEMMA StemControlGiven == Given(Preference!AapStemControlCapability)
<1> DEFINE send == [v \in 0 .. 15 |-> Preference!AapSetStemControl(v)]
<1>1. \A v \in 0 .. 15 : send[v] # Preference!Hello
  <2> TAKE v \in 0 .. 15
  <2>1. v \in Int
    OBVIOUS
  <2>2. Preference!AapSetStemControl(v) # Preference!Hello
    BY <2>1, SettingSent, Zenon DEF Preference!AapSetStemControl
  <2> QED
    BY <2>2, Zenon
<1>2. DOMAIN send = 0 .. 15
  BY Zenon
<1>3. Preference!AapStemControlCapability
         = Preference!Preference(0, [v \in 0 .. 15 |-> v], {0, 3}, {-1, 16}, send, 1 .. 15)
  BY Zenon DEF Preference!AapStemControlCapability
<1> HIDE DEF send
<1> QED
  BY <1>1, <1>2, <1>3, PreferenceGiven

\* Whether noise control may be off: one of the modes, or the wish not to apply any.
LEMMA AncOffModeGiven == Given(Preference!AapAncOffModeCapability)
<1> DEFINE modes == Preference!AapAncOffMode
           keeps == [v \in {Preference!DoNotApply} \cup modes |-> v]
           send == [v \in modes |-> Preference!AapSetAncOffMode(v)]
<1>1. modes \subseteq Int /\ Preference!DoNotApply \in Int
  BY DEF Preference!AapAncOffMode, Preference!DoNotApply
<1>2. \A v \in modes : send[v] # Preference!Hello
  <2> TAKE v \in modes
  <2>1. Preference!AapSetAncOffMode(v) # Preference!Hello
    BY <1>1, SettingSent, Zenon DEF Preference!AapSetAncOffMode
  <2> QED
    BY <2>1, Zenon
<1>3. DOMAIN send = modes
  BY Zenon
<1>4. Preference!AapAncOffModeCapability
         = Preference!Preference(Preference!DoNotApply, keeps,
                                 {Preference!DoNotApply} \cup modes, {3}, send, modes)
  BY Zenon DEF Preference!AapAncOffModeCapability
<1> HIDE DEF send, modes
<1> QED
  BY <1>1, <1>2, <1>3, <1>4, PreferenceGiven

\* The direction of the digital crown, the same way.
LEMMA DigitalCrownGiven == Given(Preference!AapDigitalCrownCapability)
<1> DEFINE modes == Preference!AapDigitalCrownMode
           keeps == [v \in {Preference!DoNotApply} \cup modes |-> v]
           send == [v \in modes |-> Preference!AapSetDigitalCrown(v)]
<1>1. modes \subseteq Int /\ Preference!DoNotApply \in Int
  BY DEF Preference!AapDigitalCrownMode, Preference!DoNotApply
<1>2. \A v \in modes : send[v] # Preference!Hello
  <2> TAKE v \in modes
  <2>1. Preference!AapSetDigitalCrown(v) # Preference!Hello
    BY <1>1, SettingSent, Zenon DEF Preference!AapSetDigitalCrown
  <2> QED
    BY <2>1, Zenon
<1>3. DOMAIN send = modes
  BY Zenon
<1>4. Preference!AapDigitalCrownCapability
         = Preference!Preference(Preference!DoNotApply, keeps,
                                 {Preference!DoNotApply} \cup modes, {3}, send, modes)
  BY Zenon DEF Preference!AapDigitalCrownCapability
<1> HIDE DEF send, modes
<1> QED
  BY <1>1, <1>2, <1>3, <1>4, PreferenceGiven

\* The modes a byte names, of which 1 and 6 name what all headphones have.
LEMMA PressAndHoldAncGiven ==
    ASSUME NEW m PROVE Given(Preference!AapPressAndHoldAirPodModeAncCapability(m))
<1> DEFINE Anc == Preference!AapPressAndHoldAirPodModeAnc
           HasMode(v, name) == (v \div Anc[name]) % 2 = 1
           ModesOf(v) == {name \in DOMAIN Anc : HasMode(v, name)}
           options == {v \in 0 .. 15 : \A name \in ModesOf(v) :
                           Preference!AapAncMode[name] \in Preference!GetAncModesFor(m)}
           several == {v \in options : Preference!Cardinality(ModesOf(v)) >= 2}
           c == Preference!AapPressAndHoldAirPodModeAncCapability(m)
<1>1. c = Preference!Preference(Preference!DoNotApply,
                   [v \in {Preference!DoNotApply} \cup options |->
                        IF v \in several THEN v ELSE Preference!DoNotApply],
                   {Preference!DoNotApply, 1, 6} \cup (options \cap {10}),
                   {16} \cup ({10} \ options),
                   [v \in several |-> Preference!AapSetPressAndHoldAirPodModeAnc(v)], several)
  BY DEF Preference!AapPressAndHoldAirPodModeAncCapability
<1>2. 1 \in options /\ 6 \in options
  <2>1. DOMAIN Anc = {"Off", "Anc", "Transparency", "Adaptive"}
    BY DEF Preference!AapPressAndHoldAirPodModeAnc
  <2>2. /\ Preference!AapAncMode["Off"] \in Preference!GetAncModesFor(m)
        /\ Preference!AapAncMode["Anc"] \in Preference!GetAncModesFor(m)
        /\ Preference!AapAncMode["Transparency"] \in Preference!GetAncModesFor(m)
    BY DEF Preference!GetAncModesFor
  <2>3. (1 \div 8) % 2 = 0 /\ (6 \div 8) % 2 = 0
    OBVIOUS
  <2>4. ~HasMode(1, "Adaptive") /\ ~HasMode(6, "Adaptive")
    BY <2>3 DEF Preference!AapPressAndHoldAirPodModeAnc
  <2> HIDE DEF Anc
  <2>5. \A v \in {1, 6} : ModesOf(v) \subseteq {"Off", "Anc", "Transparency"}
    BY <2>1, <2>4
  <2> HIDE DEF ModesOf
  <2> QED
    BY <2>2, <2>5
<1>3. several \subseteq options /\ options \subseteq Int
  OBVIOUS
<1> HIDE DEF several, options, c
<1>4. \A v \in several : Preference!AapSetPressAndHoldAirPodModeAnc(v) # Preference!Hello
  BY <1>3, SettingSent DEF Preference!AapSetPressAndHoldAirPodModeAnc
<1>5. Given(c)
  BY <1>1, <1>2, <1>3, <1>4 DEF Given, Preference!Preference, Preference!DoNotApply
<1> QED
  BY <1>5 DEF c

\* No other capability, of whatever headphones, is kept in the settings file.
LEMMA Records ==
    ASSUME NEW t \in DOMAIN Tested, Preference!Table[t].rule = "stored"
    PROVE  /\ Preference!Brand(t[2]) = "apple"
           /\ Preference!Table[t] \in {Preference!AapStemControlCapability,
                 Preference!AapAncOffModeCapability, Preference!AapDigitalCrownCapability,
                 Preference!AapPressAndHoldAirPodModeAncCapability(t[2])}
<1> DEFINE c == Preference!Table[t]
<1>1. c = Preference!CapabilityOf(t[1], t[2])
  BY DEF Preference!Table
<1>2. ASSUME Preference!Brand(t[2]) # "apple" PROVE FALSE
  <2>1. t[1] \in {"anc", "battery"}
    BY <1>2, PreferenceAssumption DEF Preference!Testable
  <2>2. CASE Preference!Brand(t[2]) = "galaxy"
    <3>1. c \in {Preference!GalaxyBudsAncCapability(t[2]),
                 Preference!GalaxyBudsBatteryCapability(t[2])}
      BY <1>1, <2>2 DEF Preference!CapabilityOf, Preference!GalaxyBudsCapabilityOf
    <3>2. Preference!GalaxyBudsAncCapability(t[2]).rule = "confirmed"
      BY DEF Preference!GalaxyBudsAncCapability, Preference!Anc, Preference!Narrowing
    <3>3. Preference!GalaxyBudsBatteryCapability(t[2]).rule = "battery"
      BY DEF Preference!GalaxyBudsBatteryCapability, Preference!Batteries, Preference!ReadOnly
    <3> QED BY <3>1, <3>2, <3>3
  <2>3. CASE Preference!Brand(t[2]) = "pixel"
    <3>1. c \in {Preference!PixelBudsAncCapability(t[2]), Preference!PixelBudsBatteryCapability}
      BY <1>1, <2>3 DEF Preference!CapabilityOf, Preference!PixelBudsCapabilityOf
    <3>2. Preference!PixelBudsAncCapability(t[2]).rule = "confirmed"
      BY DEF Preference!PixelBudsAncCapability, Preference!Anc, Preference!Narrowing
    <3>3. Preference!PixelBudsBatteryCapability.rule = "battery"
      BY DEF Preference!PixelBudsBatteryCapability, Preference!Batteries, Preference!ReadOnly
    <3> QED BY <3>1, <3>2, <3>3
  <2> QED BY <1>2, <2>2, <2>3 DEF Preference!Brand
<1>3. t[1] \in Preference!AapCapabilityNames
  BY <1>2, PreferenceAssumption DEF Preference!Testable, Preference!Supports
<1>4. c = Preference!AapCapabilityOf(t[1], t[2])
  BY <1>1, <1>2 DEF Preference!CapabilityOf
<1> HIDE DEF c
<1>5. t[1] \in {"pressSpeed", "pressAndHoldDuration", "volumeSwipeLength", "adaptiveAudioNoise",
                 "customEq"} => c.rule = "optimistic"
  BY <1>4 DEF Preference!AapCapabilityOf, Preference!AapPressSpeedCapability,
       Preference!AapPressAndHoldDurationCapability, Preference!AapVolumeSwipeLengthCapability,
       Preference!AapAdaptiveAudioNoiseCapability, Preference!AapCustomEqCapability,
       Preference!Choice
<1>6. t[1] \in {"volumeSwipe", "personalizedVolume", "ancOneAirPod", "toneVolume"}
         => c.rule = "optimistic"
  BY <1>4 DEF Preference!AapCapabilityOf, Preference!AapVolumeSwipeCapability,
       Preference!AapPersonalizedVolumeCapability, Preference!AapToneVolumeCapability,
       Preference!AapNoiseCancellationOneAirPodModeCapability, Preference!Switch
<1>7. t[1] \in {"hearingProtection", "optimizedCharge", "sleepDetection"} => c.rule = "assumed"
  BY <1>4 DEF Preference!AapCapabilityOf, Preference!AapHearingProtectionCapability,
       Preference!AapOptimizedChargeCapability, Preference!AapSleepDetectionCapability,
       Preference!Switch
<1>8. t[1] \in {"anc", "endCall"} => c.rule = "confirmed"
  BY <1>4 DEF Preference!AapCapabilityOf, Preference!AapAncCapability, Preference!Anc,
       Preference!AapMuteMicrophoneEndCallCapability
<1>9. t[1] = "pressAndHoldAirPodMode" => c.rule = "merged"
  BY <1>4 DEF Preference!AapCapabilityOf, Preference!AapPressAndHoldAirPodModeCapability
<1>10. t[1] = "stemControlState" => c.rule = "event"
  BY <1>4 DEF Preference!AapCapabilityOf, Preference!AapStemControlStateCapability,
       Preference!ReadOnly
<1>11. t[1] = "hearingProtectionStrength" => c.rule = "reported"
  BY <1>4 DEF Preference!AapCapabilityOf, Preference!AapHearingProtectionStrengthCapability,
       Preference!ReadOnly
<1>12. t[1] = "firmwareInfo" => c.rule = "reported"
  BY <1>4 DEF Preference!AapCapabilityOf, Preference!AapFwInfoCapability, Preference!ReadOnly
<1>13. t[1] = "battery" => c.rule = "battery"
  BY <1>4 DEF Preference!AapCapabilityOf, Preference!AapBatteryCapability, Preference!Batteries,
       Preference!ReadOnly
<1>14. t[1] \in {"stemControl", "ancOffMode", "digitalCrown", "pressAndHoldAirPodModeAnc"}
  BY <1>3, <1>5, <1>6, <1>7, <1>8, <1>9, <1>10, <1>11, <1>12, <1>13
     DEF Preference!AapCapabilityNames, c
<1>15. c \in {Preference!AapStemControlCapability,
                 Preference!AapAncOffModeCapability, Preference!AapDigitalCrownCapability,
                 Preference!AapPressAndHoldAirPodModeAncCapability(t[2])}
  BY <1>4, <1>14 DEF Preference!AapCapabilityOf
<1> QED
  BY <1>2, <1>15 DEF c

\* What may be on its way to the headphones, and the packets among it that set something.
Sendable == {Preference!Capability.send[v] : v \in DOMAIN Preference!Capability.send}
Frames == {Preference!Hello} \cup Sendable

\* The value the settings file stands for.
Wanted ==
    IF Preference!Loaded(saved) = NoValue THEN Preference!Capability.default
                                       ELSE Preference!Loaded(saved)

\* A value will be the headphones' once they have got what is on its way, if it is applied.
ToldBy(c, v, stream, held) ==
    v \in c.applied =>
        \/ \E i \in 1..Len(stream) :
               /\ stream[i] = c.send[v]
               /\ \A j \in 1..Len(stream) : j > i => stream[j] = Preference!Hello
        \/ held = c.send[v] /\ \A j \in 1..Len(stream) : stream[j] = Preference!Hello
Told(v) == ToldBy(Preference!Capability, v, toHeadphones, register)

\* The headphones tell nothing, and what they are told is one of a few packets.
TravelInv ==
    /\ starting = <<>> /\ toProgram = <<>> /\ receiver = "idle"
    /\ toHeadphones \in Seq(Frames)

\* One handler of the link's state at a time.
HandlersInv ==
    /\ dropping # "idle" => link # "up" /\ client = "Disconnected"
    /\ link = "up" /\ client # "Connected" => connecting = "idle"
    /\ link = "up" /\ client = "Connected" /\ connecting \in {"idle", "fire"} => available

\* What clients have not been told yet, they are about to be.
UntoldInv ==
    told # Preference!Json =>
        \/ server.at = "fire" \/ dropping = "fire"
        \/ connecting \in {"load", "store", "apply", "fire"}

\* The server saves valid values only.
ServingInv ==
    server.at \in {"save", "apply"} =>
        /\ server.value \in DOMAIN Preference!Capability.kept
        /\ Preference!Capability.kept[server.value] = server.value
        /\ server.value \in Int

\* A connection takes what the file has.
ConnectingInv ==
    ~simultaneous =>
        /\ connecting # "idle" => Preference!Idling
        /\ connecting \in {"load", "store"} => option = Preference!Capability.default
        /\ connecting = "store" => loaded = Preference!Loaded(saved)
        /\ connecting \in {"apply", "fire"} => option = Wanted

\* Once it has, the headphones are told whatever the file gets.
AppliedInv ==
    ~simultaneous /\ link = "up" /\ client = "Connected" /\ connecting \in {"idle", "fire"} =>
        /\ server.at \notin {"save", "apply"} => option = Wanted /\ Told(option)
        /\ server.at \in {"save", "apply"} => Told(server.value)
        /\ server.at = "apply" => saved = server.value

PrefInv ==
    /\ preference \in DOMAIN Tested
    /\ Preference!Stored => /\ TravelInv /\ HandlersInv /\ UntoldInv /\ ServingInv
                           /\ ConnectingInv /\ AppliedInv

\* What such a capability is among the others: how it is sent and answered.
Answers ==
    /\ Preference!Brand(Preference!Model) = "apple"
    /\ Given(Preference!Capability)
    /\ Preference!StartData(Preference!Model) = <<Preference!Hello>>
    /\ Preference!Prompts[preference] = {Preference!Hello}
    /\ Preference!Probes(Preference!Model) = {}
    /\ \A r : Preference!Frame(r) = r
    /\ DOMAIN Preference!Requests[preference] = Sendable
    /\ \A f \in Sendable : Preference!Requests[preference][f] = {f}
    /\ Preference!Hello \notin Sendable

\* It follows from the record.
LEMMA AnswersGiven ==
    ASSUME preference \in DOMAIN Tested, Preference!Stored
    PROVE  Answers
<1>1. /\ Preference!Brand(Preference!Model) = "apple"
      /\ Preference!Capability \in {Preference!AapStemControlCapability,
             Preference!AapAncOffModeCapability, Preference!AapDigitalCrownCapability,
             Preference!AapPressAndHoldAirPodModeAncCapability(Preference!Model)}
  BY Records DEF Preference!Stored, Preference!Capability, Preference!Model
<1>2. Given(Preference!Capability)
  BY <1>1, StemControlGiven, AncOffModeGiven, DigitalCrownGiven, PressAndHoldAncGiven
<1>3. Preference!StartData(Preference!Model) = <<Preference!Hello>>
  BY <1>1 DEF Preference!StartData
<1>4. Preference!Prompts[preference] = {Preference!Hello}
  BY <1>1 DEF Preference!Prompts, Preference!Model
<1>5. Preference!Probes(Preference!Model) = {}
  BY <1>1 DEF Preference!Probes
<1>6. \A k, r : Preference!Framed(Preference!Model, k, r) = r
  BY <1>1 DEF Preference!Framed
<1>7. \A r : Preference!Frame(r) = r
  BY <1>6 DEF Preference!Frame
<1> DEFINE c == Preference!Capability
           spoken == Preference!Spoken(Preference!Model)
           done == Preference!DoneOf(c, Preference!Model, spoken)
<1>8. Preference!Requests[preference] = done
  BY DEF Preference!Requests, Preference!Capability, Preference!Model
<1>9. DOMAIN c.done = Sendable /\ c.lacks = {} /\ \A f \in Sendable : c.done[f] = {f}
  BY <1>2 DEF Given, Sendable
<1>10. /\ DOMAIN done = Sendable
       /\ \A f \in Sendable : done[f] = {f}
  <2> DEFINE m == Preference!Model
             By(frame) == CHOOSE r \in DOMAIN c.done : Preference!Framed(m, spoken, r) = frame
             frames == {Preference!Framed(m, spoken, r) : r \in DOMAIN c.done \ c.lacks}
  <2> HIDE DEF c, spoken
  <2>1. done = [frame \in frames |-> c.done[By(frame)]]
    BY DEF Preference!DoneOf
  <2>2. \A r : Preference!Framed(m, spoken, r) = r
    BY <1>6
  <2>3. frames = Sendable
    BY <1>9, <2>2
  <2>4. \A f \in Sendable : By(f) = f
    BY <1>9, <2>2
  <2> HIDE DEF By, frames, done
  <2> QED
    BY <1>9, <2>1, <2>3, <2>4
<1>11. Preference!Hello \notin Sendable
  BY <1>2 DEF Given, Sendable
<1> HIDE DEF c, done
<1> QED
  BY <1>1, <1>2, <1>3, <1>4, <1>5, <1>7, <1>8, <1>10, <1>11 DEF Answers

\* A step does not change what a behaviour is about.
LEMMA PreferenceStays ==
    ASSUME [Preference!Next]_Preference!vars
    PROVE  /\ preference' = preference /\ Preference!Capability' = Preference!Capability
           /\ Preference!Stored' = Preference!Stored /\ Sendable' = Sendable
<1>1. preference' = preference
  <2>1. CASE Preference!Server
    BY <2>1 DEF Preference!Server, Preference!SetFromJson, Preference!Save, Preference!Apply,
       Preference!FireServer
  <2>2. CASE Preference!Reader
    BY <2>2 DEF Preference!Reader, Preference!LearnStart, Preference!Receive,
       Preference!ReceiveChannel, Preference!Subscribe, Preference!FireReader
  <2>3. CASE Preference!Link
    BY <2>3 DEF Preference!Link, Preference!Up, Preference!SendStart, Preference!Lose,
       Preference!Connected, Preference!SetReconnecting, Preference!SetDisconnected,
       Preference!Reset, Preference!FireDropped, Preference!TakeDefault,
       Preference!LoadSetting, Preference!TakeLoaded, Preference!ApplyPreference,
       Preference!FirePreference
  <2>4. CASE Preference!Headphones
    BY <2>4 DEF Preference!Headphones, Preference!Deliver, Preference!LocalChange,
       Preference!Noise
  <2>5. CASE UNCHANGED Preference!vars
    BY <2>5 DEF Preference!vars
  <2> QED
    BY <2>1, <2>2, <2>3, <2>4, <2>5 DEF Preference!Next
<1>2. Preference!Capability' = Preference!Capability
  BY <1>1 DEF Preference!Capability
<1> QED
  BY <1>1, <1>2 DEF Preference!Stored, Sendable

\* The steps that a preference takes: the headphones have nothing to tell of it.
Handling ==
    \/ Preference!Save \/ Preference!Apply \/ Preference!FireServer
    \/ Preference!Up \/ Preference!Lose \/ Preference!Connected
    \/ Preference!SetReconnecting \/ Preference!SetDisconnected
    \/ Preference!Reset \/ Preference!FireDropped
    \/ Preference!TakeDefault \/ Preference!LoadSetting \/ Preference!TakeLoaded
    \/ Preference!ApplyPreference \/ Preference!FirePreference \/ Preference!Deliver

LEMMA PreferenceSteps ==
    ASSUME Answers, TravelInv, Preference!Next
    PROVE  \/ \E value \in Preference!Capability.asked : Preference!SetFromJson(value)
           \/ Handling
<1>1. ~Preference!Reader
  <2>1. ~Preference!Receiving
    BY DEF Preference!Receiving, TravelInv
  <2>2. ~Preference!LearnStart /\ ~Preference!Receive /\ ~Preference!ReceiveChannel
    BY <2>1 DEF Preference!LearnStart, Preference!Receive, Preference!ReceiveChannel
  <2>3. ~Preference!Subscribe /\ ~Preference!FireReader
    BY DEF Preference!Subscribe, Preference!SubscribeToBudsEvents, Preference!FireReader,
       TravelInv
  <2> QED
    BY <2>2, <2>3 DEF Preference!Reader
<1>2. ~Preference!SendStart
  BY DEF Preference!SendStart, TravelInv
<1>3. ~Preference!LocalChange /\ ~Preference!Noise
  BY DEF Preference!LocalChange, Preference!Noise, Answers, Given
<1> QED
  BY <1>1, <1>2, <1>3, Zenon
     DEF Preference!Next, Preference!Server, Preference!Link, Preference!Headphones, Handling

\* A request: what it makes of a value is sent and saved.
LEMMA Requested ==
    ASSUME Answers, NEW value \in Preference!Capability.asked, Preference!SetFromJson(value)
    PROVE  \E k \in DOMAIN Preference!Capability.kept :
               /\ Preference!Capability.kept[k] = k /\ k \in Int
               /\ server.at = "idle" /\ server' = [at |-> "save", value |-> k]
               /\ toHeadphones' = IF k \in DOMAIN Preference!Capability.send
                                  THEN Append(toHeadphones, Preference!Capability.send[k])
                                  ELSE toHeadphones
               /\ simultaneous' = (connecting # "idle")
               /\ UNCHANGED <<option, available, saved, told, register, link, client, starting,
                              toProgram, connecting, loaded, dropping, receiver>>
<1> DEFINE c == Preference!Capability
           k == c.kept[value]
<1>1. k \in DOMAIN c.kept /\ c.kept[k] = k /\ k \in Int
  BY DEF Answers, Given
<1>2. Preference!SetStored(value)
  BY DEF Preference!SetFromJson, Preference!SetConfirmed, Preference!SetAtOnce,
     Preference!SetMerged, Answers, Given
<1>3. \A r : Preference!SendData(r) => toHeadphones' = Append(toHeadphones, r)
  BY DEF Preference!SendData, Preference!Put, Answers
<1>4. /\ toHeadphones' = IF k \in DOMAIN c.send THEN Append(toHeadphones, c.send[k])
                                                 ELSE toHeadphones
      /\ server' = [at |-> "save", value |-> k] /\ simultaneous' = (connecting # "idle")
  BY <1>2, <1>3 DEF Preference!SetStored, Preference!Then
<1>5. server.at = "idle"
  BY DEF Preference!SetFromJson, Preference!Idling
<1>6. UNCHANGED <<option, available, saved, told, register, link, client, starting,
                  toProgram, connecting, loaded, dropping, receiver>>
  BY DEF Preference!SetFromJson, Preference!handshake
<1> QED
  BY <1>1, <1>4, <1>5, <1>6

\* A connection: the headphones are asked to tell what they have.
LEMMA Opened ==
    ASSUME Answers, Preference!Up
    PROVE  /\ toHeadphones' = Append(toHeadphones, Preference!Hello) /\ starting' = <<>>
           /\ UNCHANGED toProgram
BY DEF Preference!Up, Preference!Put, Answers

\* What the headphones get: a setting becomes theirs.
LEMMA Got ==
    ASSUME Answers, TravelInv, Preference!Deliver
    PROVE  /\ toHeadphones # <<>> /\ toHeadphones' = Tail(toHeadphones)
           /\ Head(toHeadphones) \in Frames
           /\ register' = IF Head(toHeadphones) = Preference!Hello THEN register
                                                                   ELSE Head(toHeadphones)
           /\ UNCHANGED toProgram
<1> DEFINE first == Head(toHeadphones)
<1>1. toHeadphones # <<>> /\ toHeadphones' = Tail(toHeadphones)
  BY DEF Preference!Deliver
<1>2. first \in Frames
  BY <1>1, Taken DEF TravelInv
<1>3. CASE first = Preference!Hello
  <2>1. Preference!DeliverPrompt
    BY <1>3 DEF Preference!Deliver, Preference!DeliverProbe, Preference!DeliverRequest,
       Preference!Ignore, Answers
  <2>2. register' = register /\ toProgram' = toProgram
    BY <2>1 DEF Preference!DeliverPrompt, Answers, Given
  <2> QED
    BY <1>1, <1>2, <1>3, <2>2
<1>4. CASE first \in Sendable
  <2>1. Preference!DeliverRequest
    BY <1>4 DEF Preference!Deliver, Preference!DeliverPrompt, Preference!DeliverProbe,
       Preference!Ignore, Answers
  <2>2. register' = first
    BY <1>4, <2>1 DEF Preference!DeliverRequest, Answers
  <2>3. toProgram' = toProgram
    BY <2>1 DEF Preference!DeliverRequest, Preference!Stored, Answers, Given
  <2> QED
    BY <1>1, <1>2, <1>4, <2>2, <2>3 DEF Answers
<1> QED
  BY <1>2, <1>3, <1>4 DEF Frames

\* A preference: what is applied is sent.
LEMMA Applies ==
    ASSUME Answers, Preference!ApplyPreference
    PROVE  toHeadphones' = IF option \in Preference!Capability.applied
                           THEN Append(toHeadphones, Preference!Capability.send[option])
                           ELSE toHeadphones
BY DEF Preference!ApplyPreference, Preference!SendData, Preference!Put, Answers

\* Sending a value tells it, and getting the first of what is sent does not undo that.
LEMMA ToldSent ==
    ASSUME NEW S, NEW c, NEW v, NEW stream \in Seq(S), NEW held, c.send[v] \in S
    PROVE  ToldBy(c, v, Append(stream, c.send[v]), held)
<1> DEFINE new == Append(stream, c.send[v])
<1>1. new[Len(stream) + 1] = c.send[v] /\ Len(new) = Len(stream) + 1 /\ Len(stream) \in Nat
  BY Appended
<1> HIDE DEF new
<1>2. Len(stream) + 1 \in 1..Len(new) /\ \A j \in 1..Len(new) : ~(j > Len(stream) + 1)
  BY <1>1
<1>3. ToldBy(c, v, new, held)
  BY <1>1, <1>2 DEF ToldBy
<1> QED
  BY <1>3 DEF new

LEMMA ToldGot ==
    ASSUME NEW S, NEW c, NEW v, NEW stream \in Seq(S), stream # <<>>, NEW held,
           v \in c.applied => c.send[v] # Preference!Hello, ToldBy(c, v, stream, held)
    PROVE  ToldBy(c, v, Tail(stream),
                  IF Head(stream) = Preference!Hello THEN held ELSE Head(stream))
<1> DEFINE new == Tail(stream)
           now == IF Head(stream) = Preference!Hello THEN held ELSE Head(stream)
<1>1. /\ Head(stream) = stream[1] /\ Len(stream) \in Nat /\ Len(stream) > 0
      /\ Len(new) = Len(stream) - 1
      /\ \A i \in 1..(Len(stream) - 1) : new[i] = stream[i + 1]
  BY Taken
<1>2. now = IF stream[1] = Preference!Hello THEN held ELSE stream[1]
  BY <1>1
<1> HIDE DEF new, now
<1>3. SUFFICES ASSUME v \in c.applied
              PROVE  \/ \E i \in 1..Len(new) :
                            /\ new[i] = c.send[v]
                            /\ \A j \in 1..Len(new) : j > i => new[j] = Preference!Hello
                     \/ /\ now = c.send[v]
                        /\ \A j \in 1..Len(new) : new[j] = Preference!Hello
  BY DEF ToldBy, new, now
<1>4. CASE held = c.send[v] /\ \A j \in 1..Len(stream) : stream[j] = Preference!Hello
  BY <1>1, <1>2, <1>4
<1>5. ASSUME NEW i \in 1..Len(stream), stream[i] = c.send[v],
             \A j \in 1..Len(stream) : j > i => stream[j] = Preference!Hello
      PROVE  \/ \E k \in 1..Len(new) :
                    /\ new[k] = c.send[v]
                    /\ \A j \in 1..Len(new) : j > k => new[j] = Preference!Hello
             \/ /\ now = c.send[v]
                /\ \A j \in 1..Len(new) : new[j] = Preference!Hello
  <2>1. CASE i = 1
    BY <1>1, <1>2, <1>3, <1>5, <2>1
  <2>2. CASE i # 1
    <3>1. i - 1 \in 1..Len(new) /\ new[i - 1] = c.send[v]
      BY <1>1, <1>5, <2>2
    <3>2. \A j \in 1..Len(new) : j > i - 1 => new[j] = Preference!Hello
      BY <1>1, <1>5, <2>2
    <3> QED
      BY <3>1, <3>2
  <2> QED
    BY <2>1, <2>2
<1> QED
  BY <1>3, <1>4, <1>5 DEF ToldBy

\* Whatever is sent is one of those packets, and nothing comes back.
LEMMA TravelStep ==
    ASSUME PrefInv, Preference!Stored, [Preference!Next]_Preference!vars
    PROVE  TravelInv'
<1>a. Answers /\ TravelInv /\ HandlersInv
  BY AnswersGiven DEF PrefInv
<1>b. Sendable' = Sendable
  BY PreferenceStays
<1>1. ASSUME NEW value \in Preference!Capability.asked, Preference!SetFromJson(value)
      PROVE  TravelInv'
  <2>1. PICK k \in DOMAIN Preference!Capability.kept :
             /\ toHeadphones' = IF k \in DOMAIN Preference!Capability.send
                                THEN Append(toHeadphones, Preference!Capability.send[k])
                                ELSE toHeadphones
             /\ UNCHANGED <<starting, toProgram, receiver>>
    BY <1>a, <1>1, Requested
  <2>2. k \in DOMAIN Preference!Capability.send => Preference!Capability.send[k] \in Frames
    BY DEF Frames, Sendable
  <2>3. toHeadphones' \in Seq(Frames)
    BY <1>a, <2>1, <2>2, Appended DEF TravelInv
  <2> QED
    BY <1>a, <1>b, <2>1, <2>3 DEF TravelInv, Frames
<1>2. CASE Preference!Up
  <2>1. toHeadphones' = Append(toHeadphones, Preference!Hello) /\ starting' = <<>>
        /\ UNCHANGED <<toProgram, receiver>>
    BY <1>a, <1>2, Opened DEF Preference!Up
  <2>2. toHeadphones' \in Seq(Frames)
    BY <1>a, <2>1, Appended DEF TravelInv, Frames
  <2> QED
    BY <1>a, <1>b, <2>1, <2>2 DEF TravelInv, Frames
<1>3. CASE Preference!Lose
  <2>1. PICK lost \in 0..Len(toHeadphones) :
             toHeadphones' = SubSeq(toHeadphones, lost + 1, Len(toHeadphones))
    BY <1>3 DEF Preference!Lose
  <2>2. toHeadphones' \in Seq(Frames)
    BY <1>a, <2>1 DEF TravelInv
  <2> QED
    BY <1>a, <1>b, <1>3, <2>2 DEF Preference!Lose, Preference!handshake, TravelInv, Frames
<1>4. CASE Preference!ApplyPreference
  <2>1. toHeadphones' \in Seq(Frames)
    <3>1. option \in Preference!Capability.applied
             => Preference!Capability.send[option] \in Frames
      BY <1>a DEF Answers, Given, Frames, Sendable
    <3> QED
      BY <1>a, <1>4, <3>1, Applies, Appended DEF TravelInv
  <2> QED
    BY <1>a, <1>b, <1>4, <2>1
       DEF Preference!ApplyPreference, Preference!handshake, TravelInv, Frames
<1>5. CASE Preference!Deliver
  <2>1. toHeadphones' \in Seq(Frames) /\ UNCHANGED toProgram
    BY <1>a, <1>5, Got, Taken DEF TravelInv
  <2> QED
    BY <1>a, <1>b, <1>5, <2>1 DEF Preference!Deliver, Preference!handshake, TravelInv, Frames
<1>6. CASE Preference!Save \/ Preference!Apply \/ Preference!FireServer
  BY <1>a, <1>b, <1>6 DEF Preference!Save, Preference!Apply, Preference!FireServer, TravelInv,
     Frames, Preference!handshake
<1>7. CASE Preference!Connected \/ Preference!SetReconnecting \/ Preference!SetDisconnected
  BY <1>a, <1>b, <1>7 DEF Preference!Connected, Preference!SetReconnecting,
     Preference!SetDisconnected, TravelInv, Frames, Preference!handshake
<1>8. CASE Preference!Reset \/ Preference!FireDropped \/ Preference!TakeDefault
  BY <1>a, <1>b, <1>8 DEF Preference!Reset, Preference!FireDropped, Preference!TakeDefault,
     TravelInv, Frames, Preference!handshake
<1>9. CASE Preference!LoadSetting \/ Preference!TakeLoaded \/ Preference!FirePreference
  BY <1>a, <1>b, <1>9 DEF Preference!LoadSetting, Preference!TakeLoaded,
     Preference!FirePreference, TravelInv, Frames, Preference!handshake
<1>10. CASE UNCHANGED Preference!vars
  BY <1>a, <1>b, <1>10 DEF Preference!vars, TravelInv, Frames
<1> QED
  BY <1>a, <1>1, <1>2, <1>3, <1>4, <1>5, <1>6, <1>7, <1>8, <1>9, <1>10,
     PreferenceSteps DEF Handling

\* The handlers of a connection and of its loss take turns.
LEMMA HandlersStep ==
    ASSUME PrefInv, Preference!Stored, [Preference!Next]_Preference!vars
    PROVE  HandlersInv'
<1>a. Answers /\ TravelInv /\ HandlersInv
  BY AnswersGiven DEF PrefInv
<1>b. Preference!Capability' = Preference!Capability
  BY PreferenceStays
<1>1. ASSUME NEW value \in Preference!Capability.asked, Preference!SetFromJson(value)
      PROVE  HandlersInv'
  BY <1>a, <1>b, <1>1, Requested DEF HandlersInv
<1>2. CASE Preference!Save \/ Preference!Apply \/ Preference!FireServer
  BY <1>a, <1>b, <1>2 DEF Preference!Save, Preference!Apply, Preference!FireServer, HandlersInv
<1>3. CASE Preference!Up \/ Preference!Lose \/ Preference!Connected
  BY <1>a, <1>b, <1>3 DEF Preference!Up, Preference!Lose, Preference!Connected, HandlersInv,
     Preference!Stored
<1>4. CASE Preference!SetReconnecting \/ Preference!SetDisconnected \/ Preference!Reset
  BY <1>a, <1>b, <1>4 DEF Preference!SetReconnecting, Preference!SetDisconnected,
     Preference!Reset, HandlersInv, Preference!Stopped
<1>5. CASE Preference!FireDropped \/ Preference!TakeDefault \/ Preference!LoadSetting
  BY <1>a, <1>b, <1>5 DEF Preference!FireDropped, Preference!TakeDefault, Preference!LoadSetting,
     HandlersInv
<1>6. CASE Preference!TakeLoaded \/ Preference!ApplyPreference \/ Preference!FirePreference
  BY <1>a, <1>b, <1>6 DEF Preference!TakeLoaded, Preference!ApplyPreference,
     Preference!FirePreference, HandlersInv
<1>7. CASE Preference!Deliver
  BY <1>a, <1>b, <1>7 DEF Preference!Deliver, HandlersInv
<1>8. CASE UNCHANGED Preference!vars
  BY <1>a, <1>b, <1>8 DEF Preference!vars, HandlersInv
<1> QED
  BY <1>a, <1>1, <1>2, <1>3, <1>4, <1>5, <1>6, <1>7, <1>8, PreferenceSteps DEF Handling

\* Whoever changes what is to be told tells it in the end.
LEMMA UntoldStep ==
    ASSUME PrefInv, Preference!Stored, [Preference!Next]_Preference!vars
    PROVE  UntoldInv'
<1>a. Answers /\ TravelInv /\ HandlersInv /\ UntoldInv
  BY AnswersGiven DEF PrefInv
<1>b. Preference!Capability' = Preference!Capability
  BY PreferenceStays
<1>1. ASSUME NEW value \in Preference!Capability.asked, Preference!SetFromJson(value)
      PROVE  UntoldInv'
  BY <1>a, <1>b, <1>1, Requested DEF UntoldInv, Preference!Json
<1>2. CASE Preference!Save \/ Preference!Apply \/ Preference!FireServer
  BY <1>a, <1>b, <1>2 DEF Preference!Save, Preference!Apply, Preference!FireServer, UntoldInv,
     HandlersInv, Preference!Json, Preference!Then, Preference!Idle
<1>3. CASE Preference!Up \/ Preference!Lose \/ Preference!Connected
  BY <1>a, <1>b, <1>3 DEF Preference!Up, Preference!Lose, Preference!Connected, UntoldInv,
     HandlersInv, Preference!Json, Preference!Stored
<1>4. CASE Preference!SetReconnecting \/ Preference!SetDisconnected \/ Preference!Reset
  BY <1>a, <1>b, <1>4 DEF Preference!SetReconnecting, Preference!SetDisconnected,
     Preference!Reset, UntoldInv, HandlersInv, Preference!Json
<1>5. CASE Preference!FireDropped \/ Preference!TakeDefault \/ Preference!LoadSetting
  BY <1>a, <1>b, <1>5 DEF Preference!FireDropped, Preference!TakeDefault, Preference!LoadSetting,
     UntoldInv, HandlersInv, Preference!Json
<1>6. CASE Preference!TakeLoaded \/ Preference!ApplyPreference \/ Preference!FirePreference
  BY <1>a, <1>b, <1>6 DEF Preference!TakeLoaded, Preference!ApplyPreference,
     Preference!FirePreference, UntoldInv, HandlersInv, Preference!Json
<1>7. CASE Preference!Deliver
  BY <1>a, <1>b, <1>7 DEF Preference!Deliver, UntoldInv, HandlersInv, Preference!Json
<1>8. CASE UNCHANGED Preference!vars
  BY <1>a, <1>b, <1>8 DEF Preference!vars, UntoldInv, HandlersInv, Preference!Json
<1> QED
  BY <1>a, <1>1, <1>2, <1>3, <1>4, <1>5, <1>6, <1>7, <1>8, PreferenceSteps DEF Handling

\* The server saves what the record makes of a request.
LEMMA ServingStep ==
    ASSUME PrefInv, Preference!Stored, [Preference!Next]_Preference!vars
    PROVE  ServingInv'
<1>a. Answers /\ TravelInv /\ HandlersInv /\ ServingInv
  BY AnswersGiven DEF PrefInv
<1>b. Preference!Capability' = Preference!Capability
  BY PreferenceStays
<1>1. ASSUME NEW value \in Preference!Capability.asked, Preference!SetFromJson(value)
      PROVE  ServingInv'
  BY <1>a, <1>b, <1>1, Requested DEF ServingInv
<1>2. CASE Preference!Save \/ Preference!Apply \/ Preference!FireServer
  BY <1>a, <1>b, <1>2 DEF Preference!Save, Preference!Apply, Preference!FireServer, ServingInv,
     Preference!Then, Preference!Idle
<1>3. CASE Preference!Up \/ Preference!Lose \/ Preference!Connected
  BY <1>a, <1>b, <1>3 DEF Preference!Up, Preference!Lose, Preference!Connected, ServingInv
<1>4. CASE Preference!SetReconnecting \/ Preference!SetDisconnected \/ Preference!Reset
  BY <1>a, <1>b, <1>4 DEF Preference!SetReconnecting, Preference!SetDisconnected,
     Preference!Reset, ServingInv
<1>5. CASE Preference!FireDropped \/ Preference!TakeDefault \/ Preference!LoadSetting
  BY <1>a, <1>b, <1>5 DEF Preference!FireDropped, Preference!TakeDefault, Preference!LoadSetting,
     ServingInv
<1>6. CASE Preference!TakeLoaded \/ Preference!ApplyPreference \/ Preference!FirePreference
  BY <1>a, <1>b, <1>6 DEF Preference!TakeLoaded, Preference!ApplyPreference,
     Preference!FirePreference, ServingInv
<1>7. CASE Preference!Deliver
  BY <1>a, <1>b, <1>7 DEF Preference!Deliver, ServingInv
<1>8. CASE UNCHANGED Preference!vars
  BY <1>a, <1>b, <1>8 DEF Preference!vars, ServingInv
<1> QED
  BY <1>a, <1>1, <1>2, <1>3, <1>4, <1>5, <1>6, <1>7, <1>8, PreferenceSteps DEF Handling

\* The Connected handler ends with what the settings file has.
LEMMA ConnectingStep ==
    ASSUME PrefInv, Preference!Stored, [Preference!Next]_Preference!vars
    PROVE  ConnectingInv'
<1>a. Answers /\ TravelInv /\ ConnectingInv
  BY AnswersGiven DEF PrefInv
<1>b. Preference!Capability' = Preference!Capability
  BY PreferenceStays
<1>1. ASSUME NEW value \in Preference!Capability.asked, Preference!SetFromJson(value)
      PROVE  ConnectingInv'
  BY <1>a, <1>b, <1>1, Requested DEF ConnectingInv, Preference!Idling
<1>2. CASE Preference!Save \/ Preference!Apply \/ Preference!FireServer
  BY <1>a, <1>b, <1>2 DEF Preference!Save, Preference!Apply, Preference!FireServer, ConnectingInv,
     Wanted, Preference!Loaded, Preference!Idling, Preference!Then, Preference!Idle,
     Preference!history
<1>3. CASE Preference!Up \/ Preference!Lose
  BY <1>a, <1>b, <1>3 DEF Preference!Up, Preference!Lose, ConnectingInv, Wanted,
     Preference!Loaded, Preference!Idling, Preference!history
<1>4. CASE Preference!Connected
  BY <1>4 DEF Preference!Connected, Preference!Stored, ConnectingInv, Preference!Idling
<1>5. CASE Preference!SetReconnecting \/ Preference!SetDisconnected \/ Preference!Reset
  BY <1>a, <1>b, <1>5 DEF Preference!SetReconnecting, Preference!SetDisconnected,
     Preference!Reset, Preference!Stored, ConnectingInv, Wanted, Preference!Loaded,
     Preference!Idling, Preference!history
<1>6. CASE Preference!FireDropped \/ Preference!TakeDefault \/ Preference!LoadSetting
  BY <1>a, <1>b, <1>6 DEF Preference!FireDropped, Preference!TakeDefault, Preference!LoadSetting,
     ConnectingInv, Wanted, Preference!Loaded, Preference!Idling, Preference!history
<1>7. CASE Preference!TakeLoaded \/ Preference!ApplyPreference \/ Preference!FirePreference
  BY <1>a, <1>b, <1>7 DEF Preference!TakeLoaded, Preference!ApplyPreference,
     Preference!FirePreference, ConnectingInv, Wanted, Preference!Loaded, Preference!Idling,
     Preference!history
<1>8. CASE Preference!Deliver
  BY <1>a, <1>b, <1>8 DEF Preference!Deliver, ConnectingInv, Wanted, Preference!Loaded,
     Preference!Idling, Preference!history
<1>9. CASE UNCHANGED Preference!vars
  BY <1>a, <1>b, <1>9 DEF Preference!vars, ConnectingInv, Wanted, Preference!Loaded,
     Preference!Idling
<1> QED
  BY <1>a, <1>1, <1>2, <1>3, <1>4, <1>5, <1>6, <1>7, <1>8, <1>9, PreferenceSteps DEF Handling

\* What the headphones are told last is what the settings file has.
LEMMA AppliedStep ==
    ASSUME PrefInv, Preference!Stored, [Preference!Next]_Preference!vars
    PROVE  AppliedInv'
<1>a. Answers /\ TravelInv /\ HandlersInv /\ ServingInv /\ ConnectingInv /\ AppliedInv
  BY AnswersGiven DEF PrefInv
<1>b. Preference!Capability' = Preference!Capability
  BY PreferenceStays
<1>1. ASSUME NEW value \in Preference!Capability.asked, Preference!SetFromJson(value)
      PROVE  AppliedInv'
  <2>1. PICK k \in DOMAIN Preference!Capability.kept :
             /\ server.at = "idle" /\ server' = [at |-> "save", value |-> k]
             /\ toHeadphones' = IF k \in DOMAIN Preference!Capability.send
                                THEN Append(toHeadphones, Preference!Capability.send[k])
                                ELSE toHeadphones
             /\ UNCHANGED register
    BY <1>a, <1>1, Requested
  <2>2. ToldBy(Preference!Capability, k, toHeadphones', register)
    <3>1. CASE k \in DOMAIN Preference!Capability.send
      <4>1. Preference!Capability.send[k] \in Frames
        BY <3>1 DEF Frames, Sendable
      <4> QED
        BY <1>a, <2>1, <3>1, <4>1, ToldSent DEF TravelInv
    <3>2. CASE k \notin DOMAIN Preference!Capability.send
      BY <1>a, <3>2 DEF Answers, Given, ToldBy
    <3> QED
      BY <3>1, <3>2
  <2> QED
    BY <1>b, <2>1, <2>2 DEF AppliedInv, Told
<1>2. CASE Preference!Save
  BY <1>a, <1>b, <1>2 DEF Preference!Save, Preference!Then, AppliedInv, Told, Preference!history
<1>3. CASE Preference!Apply
  <2>1. server'.at \in {"idle", "fire"} /\ option' = server.value
    BY <1>3 DEF Preference!Apply, Preference!Then, Preference!Idle
  <2>2. saved = server.value => option' = Wanted'
    BY <1>a, <1>b, <1>3, <2>1, PreferenceAssumption
       DEF Preference!Apply, ServingInv, Wanted, Preference!Loaded
  <2> QED
    BY <1>a, <1>b, <1>3, <2>1, <2>2 DEF Preference!Apply, AppliedInv, Told
<1>4. CASE Preference!Connected
  BY <1>4 DEF Preference!Connected, Preference!Stored, AppliedInv
<1>5. CASE Preference!ApplyPreference
  <2>1. Told(option)'
    <3>1. CASE option \in Preference!Capability.applied
      <4>1. Preference!Capability.send[option] \in Frames
        BY <1>a, <3>1 DEF Answers, Given, Frames, Sendable
      <4>2. ToldBy(Preference!Capability, option,
                   Append(toHeadphones, Preference!Capability.send[option]), register)
        BY <1>a, <4>1, ToldSent DEF TravelInv
      <4> QED
        BY <1>a, <1>b, <1>5, <3>1, <4>2, Applies DEF Preference!ApplyPreference, Told
    <3>2. CASE option \notin Preference!Capability.applied
      BY <1>b, <1>5, <3>2 DEF Preference!ApplyPreference, Told, ToldBy
    <3> QED
      BY <3>1, <3>2
  <2>2. ~simultaneous => Preference!Idling /\ option' = Wanted'
    BY <1>a, <1>b, <1>5 DEF Preference!ApplyPreference, ConnectingInv, Wanted, Preference!Loaded
  <2> QED
    BY <1>5, <2>1, <2>2 DEF Preference!ApplyPreference, AppliedInv, Preference!Idling
<1>6. CASE Preference!Deliver
  <2>1. \A v : Told(v) => ToldBy(Preference!Capability, v, toHeadphones', register')
    <3>1. /\ toHeadphones # <<>> /\ toHeadphones' = Tail(toHeadphones)
          /\ register' = IF Head(toHeadphones) = Preference!Hello THEN register
                                                                  ELSE Head(toHeadphones)
      BY <1>a, <1>6, Got
    <3>2. \A v \in Preference!Capability.applied :
              Preference!Capability.send[v] # Preference!Hello
      BY <1>a DEF Answers, Given
    <3> QED
      BY <1>a, <3>1, <3>2, ToldGot DEF TravelInv, Told
  <2>2. UNCHANGED <<simultaneous, link, client, connecting, server, option, saved>>
    BY <1>6 DEF Preference!Deliver, Preference!history
  <2> QED
    BY <1>a, <1>b, <2>1, <2>2 DEF AppliedInv, Told, Wanted, Preference!Loaded
<1>7. CASE Preference!FireServer \/ Preference!Up \/ Preference!Lose
  BY <1>a, <1>b, <1>7 DEF Preference!FireServer, Preference!Up, Preference!Lose, AppliedInv,
     Wanted, Preference!Loaded, Told, Preference!Idle, HandlersInv, Preference!history
<1>8. CASE Preference!SetReconnecting \/ Preference!SetDisconnected \/ Preference!Reset
  BY <1>a, <1>b, <1>8 DEF Preference!SetReconnecting, Preference!SetDisconnected,
     Preference!Reset, AppliedInv, Wanted, Preference!Loaded, Told, Preference!Stopped,
     HandlersInv, Preference!history
<1>9. CASE Preference!FireDropped \/ Preference!TakeDefault \/ Preference!LoadSetting
  BY <1>a, <1>b, <1>9 DEF Preference!FireDropped, Preference!TakeDefault, Preference!LoadSetting,
     AppliedInv, Wanted, Preference!Loaded, Told, HandlersInv, Preference!history
<1>10. CASE Preference!TakeLoaded \/ Preference!FirePreference
  BY <1>a, <1>b, <1>10 DEF Preference!TakeLoaded, Preference!FirePreference, AppliedInv, Wanted,
     Preference!Loaded, Told, HandlersInv, Preference!history
<1>11. CASE UNCHANGED Preference!vars
  BY <1>a, <1>b, <1>11 DEF Preference!vars, AppliedInv, Wanted, Preference!Loaded, Told,
     HandlersInv
<1> QED
  BY <1>a, <1>1, <1>2, <1>3, <1>4, <1>5, <1>6, <1>7, <1>8, <1>9, <1>10, <1>11,
     PreferenceSteps DEF Handling

\* All of it, from the start on.
LEMMA PreferenceInvariance == Preference!Spec => []PrefInv
<1>1. Preference!Init => PrefInv
  BY DEF Preference!Init, PrefInv, TravelInv, HandlersInv, UntoldInv, ServingInv, ConnectingInv,
     AppliedInv, Preference!Json, Preference!Idle
<1>2. PrefInv /\ [Preference!Next]_Preference!vars => PrefInv'
  <2> SUFFICES ASSUME PrefInv, [Preference!Next]_Preference!vars PROVE PrefInv'
    OBVIOUS
  <2>1. preference' \in DOMAIN Tested /\ Preference!Stored' = Preference!Stored
    BY PreferenceStays DEF PrefInv
  <2> QED
    BY <2>1, TravelStep, HandlersStep, UntoldStep, ServingStep, ConnectingStep, AppliedStep
       DEF PrefInv
<1> QED
  BY <1>1, <1>2, PTL DEF Preference!Spec

\* A preference survives disconnections: at rest clients have been told what the settings file
\* has, and so have the headphones (the Connected handlers and SetFromJson() of
\* AapStemControlCapability and the like), whichever is kept there and whatever the model.
THEOREM PreferenceIsApplied == PartSpec => []PreferenceApplied
<1>1. PrefInv => PreferenceApplied
  <2> SUFFICES ASSUME PrefInv, Preference!Quiet, Preference!Stored, ~simultaneous
               PROVE  /\ told = Wanted
                      /\ told \in Preference!Capability.applied
                             => register = Preference!Capability.send[told]
    BY DEF PreferenceApplied, Preference!PreferenceApplied, Wanted
  <2>1. /\ link = "up" /\ client = "Connected" /\ connecting = "idle" /\ dropping = "idle"
        /\ server.at = "idle" /\ toHeadphones = <<>>
    BY DEF Preference!Quiet, Preference!Settled, Preference!Idling
  <2>2. told = option
    BY <2>1 DEF PrefInv, UntoldInv, HandlersInv, Preference!Json
  <2>3. option = Wanted /\ Told(option)
    BY <2>1 DEF PrefInv, AppliedInv
  <2>4. Len(toHeadphones) = 0
    BY <2>1
  <2> QED
    BY <2>2, <2>3, <2>4 DEF Told, ToldBy
<1> QED
  BY <1>1, PreferenceInvariance, PartsOfPeriphery, PTL

(***************************************************************************)
(* Pressing and holding: AapPressAndHoldAirPodModeState.                   *)
(***************************************************************************)
\* What a request for a mode may make of a state.
Requests(s, mode) == {SetRight(s, mode), SetLeft(s, mode)}

\* A valid pair, mode by mode.
LEMMA PairCases ==
    ASSUME NEW pair \in ValidPairs
    PROVE  /\ pair = <<pair[1], pair[2]>>
           /\ \/ pair[1] \in {1, 5} /\ pair[2] \in {1, 5}
              \/ pair[1] = 6 /\ pair[2] = 7
              \/ pair[1] = 7 /\ pair[2] = 6
BY DEF ValidPairs, ModePair, IsValidPair, IsStandardPair, IsVolumePair, Modes, StandardModes,
       VolumeModes, AapPressAndHoldAirPodMode

\* And the other way round.
LEMMA PairIn ==
    /\ \A a, b \in {1, 5} : <<a, b>> \in ValidPairs
    /\ <<6, 7>> \in ValidPairs
    /\ <<7, 6>> \in ValidPairs
BY DEF ValidPairs, ModePair, IsValidPair, IsStandardPair, IsVolumePair, Modes, StandardModes,
       VolumeModes, AapPressAndHoldAirPodMode

\* The standard modes of a state, used or kept, are a valid pair of standard modes, and the
\* volume modes of one that has them a valid pair of volume modes.
LEMMA KeptPairs ==
    ASSUME NEW s \in States
    PROVE  /\ GetStandardModes(s) \in {1, 5} \X {1, 5}
           /\ IsVolumeSupported(s) => GetVolumeModes(s) \in {<<6, 7>>, <<7, 6>>}
<1>1. s.active \in ValidPairs /\ s.alternative \in ValidPairs
  BY DEF States
<1>2. GetStandardModes(s) \in {1, 5} \X {1, 5}
  BY <1>1 DEF GetStandardModes, Pick, StandardModes, AapPressAndHoldAirPodMode
<1>3. ASSUME IsVolumeSupported(s)
      PROVE  GetVolumeModes(s) \in {<<6, 7>>, <<7, 6>>}
  BY <1>1, <1>3, PairCases
     DEF GetVolumeModes, Pick, IsVolumeSupported, VolumeModes, AapPressAndHoldAirPodMode
<1> QED
  BY <1>2, <1>3

\* Whatever is asked of whichever earbud, what the program takes for the state of the headphones
\* stays one that they can have (SetRight() and SetLeft() of AapPressAndHoldAirPodModeState).
THEOREM StatesKept ==
    ASSUME NEW s \in States, NEW mode
    PROVE  Requests(s, mode) \subseteq States
<1>1. s.active \in ValidPairs /\ s.alternative \in ValidPairs
  BY DEF States
<1>2. \A a, b \in ValidPairs : [active |-> a, alternative |-> b] \in States
  BY DEF States
<1>3. GetStandardModes(s) = <<GetStandardModes(s)[1], GetStandardModes(s)[2]>>
      /\ GetStandardModes(s)[1] \in {1, 5} /\ GetStandardModes(s)[2] \in {1, 5}
  BY KeptPairs
<1>4. GetStandardModes(s) \in ValidPairs
  BY <1>3, PairIn
<1>5. \A pair \in {<<6, 7>>, <<7, 6>>} : WithVolume(s, pair) \in States
  BY <1>2, <1>4, PairIn DEF WithVolume
<1>6. \A a, b \in {1, 5} : WithStandard(s, <<a, b>>) \in States
  BY <1>2, KeptPairs, PairIn DEF WithStandard
<1>7. SetRight(s, mode) \in States
  BY <1>1, <1>3, <1>5, <1>6
     DEF SetRight, StandardModes, VolumeModes, Opposite, AapPressAndHoldAirPodMode
<1>8. SetLeft(s, mode) \in States
  BY <1>1, <1>3, <1>5, <1>6
     DEF SetLeft, StandardModes, VolumeModes, Opposite, AapPressAndHoldAirPodMode
<1> QED
  BY <1>7, <1>8 DEF Requests

\* Headphones that have volume modes never lose them by a request and others never gain them, and
\* what is not in use is not forgotten: asking for volume keeps both standard modes, and asking
\* for a standard mode keeps which earbud turns the volume up.
THEOREM NothingForgotten ==
    ASSUME NEW s \in States, NEW mode, NEW t \in Requests(s, mode)
    PROVE  /\ IsVolumeSupported(t) <=> IsVolumeSupported(s)
           /\ IsVolumePair(t.active) => GetStandardModes(t) = GetStandardModes(s)
           /\ IsVolumeSupported(s) /\ IsStandardPair(t.active)
                  => GetVolumeModes(t) = GetVolumeModes(s)
<1> DEFINE Kept(u) ==
        /\ IsVolumeSupported(u) <=> IsVolumeSupported(s)
        /\ IsVolumePair(u.active) => GetStandardModes(u) = GetStandardModes(s)
        /\ IsVolumeSupported(s) /\ IsStandardPair(u.active) => GetVolumeModes(u) = GetVolumeModes(s)
<1>1. s.active \in ValidPairs /\ s.alternative \in ValidPairs
  BY DEF States
<1>2. GetStandardModes(s) = <<GetStandardModes(s)[1], GetStandardModes(s)[2]>>
      /\ GetStandardModes(s)[1] \in {1, 5} /\ GetStandardModes(s)[2] \in {1, 5}
  BY KeptPairs
<1>3. Kept(s)
  OBVIOUS
<1>4. ASSUME NEW pair \in {<<6, 7>>, <<7, 6>>}
      PROVE  Kept(WithVolume(s, pair))
  <2>1. CASE IsVolumeSupported(s)
    <3> DEFINE u == [active |-> pair, alternative |-> GetStandardModes(s)]
    <3>1. WithVolume(s, pair) = u
      BY <2>1 DEF WithVolume
    <3>2. IsVolumeSupported(u) /\ ~IsStandardPair(u.active)
      BY DEF IsVolumeSupported, IsStandardPair, VolumeModes, StandardModes,
             AapPressAndHoldAirPodMode
    <3>3. GetStandardModes(u) = <<GetStandardModes(s)[1], GetStandardModes(s)[2]>>
      BY <1>2 DEF GetStandardModes, Pick, StandardModes, AapPressAndHoldAirPodMode
    <3> QED
      BY <1>2, <2>1, <3>1, <3>2, <3>3
  <2>2. CASE ~IsVolumeSupported(s)
    BY <1>3, <2>2 DEF WithVolume
  <2> QED
    BY <2>1, <2>2
<1>5. ASSUME NEW a \in {1, 5}, NEW b \in {1, 5}
      PROVE  Kept(WithStandard(s, <<a, b>>))
  <2> DEFINE u == WithStandard(s, <<a, b>>)
  <2>1. u.active = <<a, b>> /\ ~IsVolumePair(u.active)
    BY DEF WithStandard, IsVolumePair, VolumeModes, AapPressAndHoldAirPodMode
  <2>2. CASE IsVolumeSupported(s)
    <3>1. u.alternative = GetVolumeModes(s) /\ GetVolumeModes(s) \in {<<6, 7>>, <<7, 6>>}
      BY <2>2, KeptPairs DEF WithStandard
    <3>2. IsVolumeSupported(u)
      BY <3>1 DEF IsVolumeSupported, VolumeModes, AapPressAndHoldAirPodMode
    <3>3. GetVolumeModes(u) = <<u.alternative[1], u.alternative[2]>>
      BY <2>1, <3>1 DEF GetVolumeModes, Pick, VolumeModes, AapPressAndHoldAirPodMode
    <3> QED
      BY <2>1, <2>2, <3>1, <3>2, <3>3
  <2>3. CASE ~IsVolumeSupported(s)
    <3>1. u.alternative = <<a, b>>
      BY <2>3 DEF WithStandard
    <3>2. ~IsVolumeSupported(u)
      BY <2>1, <3>1 DEF IsVolumeSupported, VolumeModes, AapPressAndHoldAirPodMode
    <3> QED
      BY <2>1, <2>3, <3>2
  <2> QED
    BY <2>2, <2>3
<1>6. Kept(SetRight(s, mode))
  BY <1>2, <1>3, <1>4, <1>5
     DEF SetRight, StandardModes, VolumeModes, Opposite, AapPressAndHoldAirPodMode
<1>7. Kept(SetLeft(s, mode))
  BY <1>2, <1>3, <1>4, <1>5
     DEF SetLeft, StandardModes, VolumeModes, Opposite, AapPressAndHoldAirPodMode
<1>8. Kept(t)
  BY <1>6, <1>7 DEF Requests
<1> QED
  BY <1>8
=============================================================================
