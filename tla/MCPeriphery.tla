---------------------------- MODULE MCPeriphery ----------------------------
(* The devices of the program, and the parts that share no state with the   *)
(* others, on small instances: the scan for advertisements, the animation   *)
(* they trigger, the settings, the battery of hands-free headphones, and    *)
(* the preferences that headphones are given when they connect. A behaviour *)
(* of this module is one of the part chosen at the start, with the          *)
(* variables of the others at rest.                                         *)
EXTENDS Fetcher

CONSTANTS
    Restarters, MaxChanges,                       \* BleScan
    Addresses, Levels, MaxAds, MaxKeys,           \* Animation
    SettingNames, Values, ValidLevels, MaxSaves,  \* Settings
    Percentages, MaxSignals,                      \* HandsFree
    NoValue, Tested                               \* Capabilities

\* A level is a byte.
ASSUME LevelsAssumption == Percentages \subseteq 0..255

\* An address is not the name of anything else a message may be about, a thread that restarts
\* the scan none of those that update it, and no setting is without a name.
ASSUME AddressesAssumption == Addresses \cap {"none", "connection", "shown"} = {}
ASSUME RestartersAssumption == Restarters \cap {"server", "dbus"} = {}
ASSUME SettingNamesAssumption == SettingNames \cap {"", "none"} = {}
\* Bounds are numbers.
ASSUME BoundsAssumption == MaxKeys \in Nat /\ MaxChanges \in Nat

VARIABLES
    part,
    setting, apple, started, desired, powered, signals, discovering, listeners, field, entry,
    heard, calls, scanPc, changes, scanExcused, scanFailed,
    keys, irk, enc, keyFile, reader, mac, cached, hasColor, color, online, fire, shown, ads,
    last, heardOf, order, late,
    running, memory, file, saver, saving, text, level, kept, refused, saves, saveExcused,
    linked, percentage, toDevice, toService, infoLinked, infoLevel, teller, carried,
    battery, isAvailable, reports, tellExcused,
    preference, option, available, saved, told, register, link, client, starting, learned,
    toHeadphones, toProgram, connecting, loaded, dropping, receiver, server, sent, crossed,
    simultaneous, offline, swallowed, counts

scanVars == <<setting, apple, started, desired, powered, signals, discovering, listeners, field,
              entry, heard, calls, scanPc, changes, scanExcused, scanFailed>>
animationVars == <<keys, irk, enc, keyFile, reader, mac, cached, hasColor, color, online, fire,
                   shown, ads, last, heardOf, order, late>>
settingsVars == <<running, memory, file, saver, saving, text, level, kept, refused, saves,
                  saveExcused>>
batteryVars == <<linked, percentage, toDevice, toService, infoLinked, infoLevel, teller,
                 carried, battery, isAvailable, reports, tellExcused>>
preferenceVars == <<preference, option, available, saved, told, register, link, client, starting,
                    learned, toHeadphones, toProgram, connecting, loaded, dropping, receiver,
                    server, sent, crossed, simultaneous, offline, swallowed, counts>>

Scan == INSTANCE BleScan WITH
    todo <- calls, pc <- scanPc, excused <- scanExcused, failed <- scanFailed
Animation == INSTANCE Animation WITH
    file <- keyFile, heard <- heardOf, connected <- online, overtaken <- late
Settings == INSTANCE Settings WITH pc <- saver, excused <- saveExcused
HandsFree == INSTANCE HandsFree WITH
    connected <- linked, infoConnected <- infoLinked, pc <- teller, signals <- reports,
    excused <- tellExcused
Preference == INSTANCE Capabilities WITH
    None <- NoValue, which <- preference, shown <- told, reader <- receiver,
    overlapped <- simultaneous

\* What headphones are given when they connect, and something they tell themselves.
Preferences ==
    [t \in {"stemControl", "ancOffMode", "volumeSwipe"} \X {"airpodspro2"}
               \cup {"pressAndHoldAirPodModeAnc"} \X {"airpodspro2", "airpodsmax"}
               \cup {<<"digitalCrown", "airpodsmax">>}
         |-> [sets |-> 1, changes |-> 1, links |-> IF t[1] = "stemControl" THEN 2 ELSE 1]]

\* No value is the absence of one, and capabilities are those headphones have.
ASSUME PreferenceAssumption == NoValue \notin Int /\ Preference!Testable

(***************************************************************************)
(* The parts                                                               *)
(***************************************************************************)
\* A part that is not chosen is in one of its initial states.
PartInit ==
    /\ part \in {"devices", "scan", "animation", "settings", "battery", "preference"}
    /\ Init /\ (part # "devices" => present = {})
    /\ Scan!Init /\ (part # "scan" => setting = "off" /\ ~apple /\ ~powered)
    /\ Animation!Init /\ (part # "animation" => irk = 0 /\ ~hasColor)
    /\ Settings!Init /\ (part # "settings" => file = Settings!Missing)
    /\ HandsFree!Init /\ (part # "battery" => ~linked)
    /\ Preference!Init
    /\ part # "preference" =>
           /\ preference = CHOOSE t \in DOMAIN Tested : Preference!Table[t].rule = "stored"
           /\ saved = NoValue

InDevices(A) ==
    part = "devices" /\ A
        /\ UNCHANGED <<part, scanVars, animationVars, settingsVars, batteryVars, preferenceVars>>
InScan(A) ==
    part = "scan" /\ A
        /\ UNCHANGED <<part, vars, animationVars, settingsVars, batteryVars, preferenceVars>>
InAnimation(A) ==
    part = "animation" /\ A
        /\ UNCHANGED <<part, vars, scanVars, settingsVars, batteryVars, preferenceVars>>
InSettings(A) ==
    part = "settings" /\ A
        /\ UNCHANGED <<part, vars, scanVars, animationVars, batteryVars, preferenceVars>>
InBattery(A) ==
    part = "battery" /\ A
        /\ UNCHANGED <<part, vars, scanVars, animationVars, settingsVars, preferenceVars>>
InPreference(A) ==
    part = "preference" /\ A
        /\ UNCHANGED <<part, vars, scanVars, animationVars, settingsVars, batteryVars>>

DevicesNext ==
    \/ InDevices(Startup) \/ InDevices(BusStep)
    \/ \E t \in Threads : InDevices(OnDeviceAdded(t)) \/ InDevices(TrySelectNewActiveDevice(t))
    \/ \E i \in Infos : InDevices(ConnectedChanged(i)) \/ InDevices(PairedChanged(i))
    \/ \E d \in Devices :
           \/ InDevices(Appear(d)) \/ InDevices(Vanish(d))
           \/ InDevices(ConnectedFlips(d)) \/ InDevices(Pairs(d))

ScanNext ==
    \/ InScan(Scan!OnSettingUpdate) \/ InScan(Scan!DevicesChange)
    \/ \E t \in Scan!Updaters :
           \/ InScan(Scan!UpdateBleState(t)) \/ InScan(Scan!SetStarted(t))
           \/ InScan(Scan!ScanUndesired(t)) \/ InScan(Scan!StopListening(t))
           \/ InScan(Scan!StopHearing(t)) \/ InScan(Scan!StopDiscoveryAsync(t))
    \/ \E t \in Scan!Threads :
           \/ InScan(Scan!ListenUnsubscribes(t)) \/ InScan(Scan!ListenSubscribes(t))
           \/ InScan(Scan!StartDiscovery(t)) \/ InScan(Scan!StartDiscoveryFails(t))
           \/ InScan(Scan!ScanDesired(t))
    \/ \E r \in Restarters : InScan(Scan!RestartWakes(r))
    \/ InScan(Scan!PowerChanges) \/ InScan(Scan!OnAdapterPowerChanged)
    \/ InScan(Scan!FindsDevice) \/ InScan(Scan!OnDeviceAdded)
    \/ InScan(Scan!Remember) \/ InScan(Scan!LosesDevice)

AnimationNext ==
    \/ \E a \in Addresses : InAnimation(Animation!OnLeData(a))
    \/ \E t \in Animation!Threads :
           InAnimation(Animation!Builds(t)) \/ InAnimation(Animation!FireAnimation(t))
    \/ InAnimation(Animation!OnConnected)
    \/ InAnimation(Animation!NewKeys) \/ InAnimation(Animation!ReceivesKeys)
    \/ InAnimation(Animation!Restart)

SettingsNext ==
    \/ InSettings(Settings!LoadFromFile) \/ InSettings(Settings!Crash)
    \/ \E c \in Settings!Containers : InSettings(Settings!GetSettings(c))
    \/ \E t \in Settings!Threads :
           \/ InSettings(Settings!SaveSetting(t)) \/ InSettings(Settings!OpenFails(t))
           \/ InSettings(Settings!Opens(t)) \/ InSettings(Settings!Prints(t))
           \/ InSettings(Settings!Closes(t)) \/ InSettings(Settings!CloseLoses(t))
           \/ InSettings(Settings!FireEvent(t))

BatteryNext ==
    \/ InBattery(HandsFree!Connects) \/ InBattery(HandsFree!Disconnects)
    \/ InBattery(HandsFree!Reports)
    \/ InBattery(HandsFree!PropertiesChanged) \/ InBattery(HandsFree!InterfaceAdded)
    \/ InBattery(HandsFree!Asks) \/ InBattery(HandsFree!Listens)
    \/ \E t \in HandsFree!Threads :
           InBattery(HandsFree!UpdateSingleBattery(t)) \/ InBattery(HandsFree!BatteryChanged(t))
    \/ InBattery(HandsFree!ClearBattery) \/ InBattery(HandsFree!Reset)

PreferenceNext ==
    \/ InPreference(Preference!Server) \/ InPreference(Preference!Reader)
    \/ InPreference(Preference!Link) \/ InPreference(Preference!Headphones)

PartNext ==
    \/ DevicesNext \/ ScanNext \/ AnimationNext \/ SettingsNext \/ BatteryNext
    \/ PreferenceNext

PartSpec ==
    /\ PartInit
    /\ [][PartNext]_<<part, vars, scanVars, animationVars, settingsVars, batteryVars,
                     preferenceVars>>

(***************************************************************************)
(* Properties: each part's, and its types.                                 *)
(***************************************************************************)
\* See BleScan: the scan runs when it should once every change has been handled.
ScanFollows == part = "scan" => Scan!TypeOK /\ Scan!ScanFollows
\* See Animation: what clients show is what the headphones have said last.
AnimationTrue == part = "animation" => Animation!TypeOK /\ Animation!AnimationTrue
\* See Settings: what was saved is in the file, and the program can be started again.
SettingsKept == part = "settings" => Settings!TypeOK /\ Settings!SettingsKept
\* See HandsFree: the battery shown is the headphones' last one.
BatteryTrue == part = "battery" => HandsFree!TypeOK /\ HandsFree!BatteryTrue
\* See Capabilities: what users prefer is shown, saved and what the headphones have.
PreferenceApplied == part = "preference" => Preference!PreferenceApplied
=============================================================================
