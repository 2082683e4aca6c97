------------------------- MODULE AapCapabilityTable -------------------------
(***************************************************************************)
(* What tells the capabilities of Apple headphones apart, one definition    *)
(* for each class of src/src/device/capabilities/aap; what they do with it  *)
(* is in Capabilities. Conversation awareness and ear detection, which      *)
(* also change volume and players, are in Wearing.                          *)
(***************************************************************************)
EXTENDS AapPackets, AapPressAndHold, CapabilityKinds, FiniteSets

-----------------------------------------------------------------------------
(* Models, and what they support. *)

AapInitExtSupported ==
    {"airpodspro2", "airpodspro3", "airpodsprousbc", "airpods4anc", "airpods5wcc", "airpods5",
     "airpodsmax2"}
AncOffModeSupported == {"airpodspro2", "airpodspro3", "airpodsprousbc"}
DigitalCrownSupported == {"airpodsmax", "airpodsmax2024", "airpodsmax2"}
StemControlSupported ==
    {"airpodspro2", "airpodspro3", "airpodsprousbc", "airpods4", "airpods4anc", "airpods5",
     "airpods5wcc"}
PressAndHoldAncSupported ==
    {"airpodspro", "airpodspro2", "airpodspro3", "airpodsprousbc", "airpodsmax", "beatsfitpro",
     "airpodsmax2024", "airpods4anc", "airpods5wcc", "airpods5", "powerbeatspro2",
     "powerbeatsfit", "airpodsmax2"}

GetAncModesFor(m) ==
    {AapAncMode.Off, AapAncMode.Anc, AapAncMode.Transparency}
        \cup IF m \in AapInitExtSupported THEN {AapAncMode.Adaptive} ELSE {}

-----------------------------------------------------------------------------
DoNotApply == -1

DeviceAncModesToAapAncMode ==
    (DeviceAncModes.Off :> AapAncMode.Off)
        @@ (DeviceAncModes.Transparency :> AapAncMode.Transparency)
        @@ (DeviceAncModes.Adaptive :> AapAncMode.Adaptive)
        @@ (DeviceAncModes.WindCancellation :> AapAncMode.Anc)
        @@ (DeviceAncModes.NoiseCancellation :> AapAncMode.Anc)

\* The watcher takes any byte for a mode.
AapAncModeToDeviceAncModes ==
    [mode \in 0 .. 255 |->
        CASE mode = AapAncMode.Transparency -> DeviceAncModes.Transparency
          [] mode = AapAncMode.Adaptive -> DeviceAncModes.Adaptive
          [] mode = AapAncMode.Anc -> DeviceAncModes.NoiseCancellation
          [] OTHER -> DeviceAncModes.Off]

AapAncCapability(m) ==
    Anc(DeviceAncModesToAapAncMode, AapAncModeToDeviceAncModes, GetAncModesFor(m),
        {AapSetAnc(mode) : mode \in {1, 2, 3, 4, 9}}, {}, AapSetAnc, AapAncWatcher)

AapMuteMicrophoneEndCallCapability ==
    LET values == {AapEndCallMode.DoublePress, AapEndCallMode.SinglePress}
        reports == {AapSetMuteMicrophoneEndCall(v) : v \in values}
                       \cup {Setting(AapCmdSettings.EndCall, <<32, v, 0, 0>>) : v \in values}
        noise == {Setting(AapCmdSettings.EndCall, <<33, 0, 0, 0>>)}
    IN  [rule |-> "confirmed", first |-> values, asked |-> values, refused |-> {1},
         reports |-> reports, noise |-> noise, lacks |-> {},
         send |-> [v \in values |-> AapSetMuteMicrophoneEndCall(v)],
         read |-> [p \in reports \cup noise |-> AapMuteMicrophoneEndCallWatcher(p)],
         done |-> [p \in {AapSetMuteMicrophoneEndCall(v) : v \in values} |-> {p}]]

AapPressSpeedCapability ==
    Choice(AapPressSpeedMode, AapPressSpeedMode, {3}, {AapSetPressSpeed(3)}, AapSetPressSpeed,
           AapPressSpeedWatcher)
AapPressAndHoldDurationCapability ==
    Choice(AapPressAndHoldDurationMode, AapPressAndHoldDurationMode, {3},
           {AapSetPressAndHoldDuration(3)}, AapSetPressAndHoldDuration, AapPressAndHoldDurationWatcher)
AapVolumeSwipeLengthCapability ==
    Choice(AapVolumeSwipeLengthMode, AapVolumeSwipeLengthMode, {3}, {AapSetVolumeSwipeLength(3)},
           AapSetVolumeSwipeLength, AapVolumeSwipeLengthWatcher)
AapAdaptiveAudioNoiseCapability ==
    Choice({0, 50, 100}, {0, 50, 100}, {-1, 101}, {AapSetToneVolume(50)},
           AapSetAdaptiveAudioNoise, AapAdaptiveAudioNoiseWatcher)

AapVolumeSwipeCapability ==
    Switch("optimistic", BOOLEAN, AapVolumeSwipeMode, AapSetVolumeSwipe, AapVolumeSwipeWatcher)
AapPersonalizedVolumeCapability ==
    Switch("optimistic", BOOLEAN, AapPersonalizedVolumeMode, AapSetPersonalizedVolume,
           AapPersonalizedVolumeWatcher)
AapNoiseCancellationOneAirPodModeCapability ==
    Switch("optimistic", BOOLEAN, AapNoiseCancellationOneAirPodMode,
           AapSetNoiseCancellationOneAirPod, AapNoiseCancellationOneAirPodWatcher)
AapHearingProtectionCapability ==
    Switch("assumed", {FALSE}, AapHearingProtectionMode, AapSetHearingProtection,
           AapHearingProtectionWatcher)
AapOptimizedChargeCapability ==
    Switch("assumed", {FALSE}, AapOptimizedChargeMode, AapSetOptimizedCharge,
           AapOptimizedChargeWatcher)
AapSleepDetectionCapability ==
    Switch("assumed", {FALSE}, AapSleepDetectionMode, AapSetSleepDetection,
           AapSleepDetectionWatcher)

\* Volumes are 15 to 125 for clients and 15 to 100 for the headphones; std::round().
ConvertToRange15_100(value) == 15 + ((value - 15) * 34 + 22) \div 44
ConvertToRange15_125(value) == 15 + ((value - 15) * 44 + 17) \div 34

AapToneVolumeCapability ==
    LET volumes == {15, 16, 71, 125}
        reports == {AapSetToneVolume(v) : v \in {15, 16, 58, 59, 100}}
    IN  [rule |-> "optimistic", first |-> volumes, asked |-> volumes,
         refused |-> {14, 126}, reports |-> reports, noise |-> {}, lacks |-> {},
         send |-> [v \in volumes \cup {72} |-> AapSetToneVolume(ConvertToRange15_100(v))],
         read |-> [p \in reports |-> ConvertToRange15_125(AapToneVolumeWatcher(p))],
         done |-> [p \in reports |-> {p}]]

AapCustomEqCapability ==
    LET Eq(state, low) == [state |-> state, low |-> low, mid |-> 50, high |-> 50]
        values == {Eq(AapCustomEqState[name], low) :
                       name \in DOMAIN AapCustomEqState, low \in {0, 100}}
    IN  Choice({Eq(AapCustomEqState.Disabled, 50)}, values, {Eq(AapCustomEqState.Enabled, 101)},
               {Packet(AapCmd.CustomEq, <<5, 0, 1, 3, 0, 0, 0>>)}, AapSetCustomEq,
               AapCustomEqWatcher)

\* A state that the headphones could not have been given is of no use.
AapPressAndHoldAirPodModeWatcher(data) ==
    LET state == [active |-> <<At(data, 7), At(data, 8)>>,
                  alternative |-> <<At(data, 9), At(data, 10)>>]
    IN  Read(OfSetting(data, 11, AapCmdSettings.PressAndHoldAirPodMode) /\ state \in States, state)

\* Requests name an earbud and its mode; option and reports are states of both earbuds.
AapPressAndHoldAirPodModeCapability ==
    LET start == {[active |-> <<1, 5>>, alternative |-> <<1, 5>>],
                  [active |-> <<7, 6>>, alternative |-> <<1, 1>>]}
        noise == {Setting(AapCmdSettings.PressAndHoldAirPodMode, <<6, 6, 1, 1>>)}
        reports == {AapSetPressAndHoldAirPodMode(s) : s \in States}
    IN  [rule |-> "merged", first |-> {None}, asked |-> {"right", "left"} \X Modes,
         refused |-> {}, noise |-> noise, lacks |-> {},
         reports |-> {AapSetPressAndHoldAirPodMode(s) : s \in start},
         send |-> [s \in States |-> AapSetPressAndHoldAirPodMode(s)],
         read |-> [p \in reports \cup noise |-> AapPressAndHoldAirPodModeWatcher(p)],
         done |-> [p \in reports |-> {p}]]

AapStemControlCapability ==
    Preference(0, [v \in 0 .. 15 |-> v], {0, 3}, {-1, 16},
               [v \in 0 .. 15 |-> AapSetStemControl(v)], 1 .. 15)
AapAncOffModeCapability ==
    Preference(DoNotApply, [v \in {DoNotApply} \cup AapAncOffMode |-> v],
               {DoNotApply} \cup AapAncOffMode, {3},
               [v \in AapAncOffMode |-> AapSetAncOffMode(v)], AapAncOffMode)
AapDigitalCrownCapability ==
    Preference(DoNotApply, [v \in {DoNotApply} \cup AapDigitalCrownMode |-> v],
               {DoNotApply} \cup AapDigitalCrownMode, {3},
               [v \in AapDigitalCrownMode |-> AapSetDigitalCrown(v)], AapDigitalCrownMode)

\* A byte with a bit for each mode of noise control; less than two modes count as no preference.
AapPressAndHoldAirPodModeAnc ==
    [Off |-> 1, Anc |-> 2, Transparency |-> 4, Adaptive |-> 8]
AapPressAndHoldAirPodModeAncCapability(m) ==
    LET Has(v, name) == (v \div AapPressAndHoldAirPodModeAnc[name]) % 2 = 1
        ModesOf(v) == {name \in DOMAIN AapPressAndHoldAirPodModeAnc : Has(v, name)}
        options == {v \in 0 .. 15 : \A name \in ModesOf(v) : AapAncMode[name] \in GetAncModesFor(m)}
        several == {v \in options : Cardinality(ModesOf(v)) >= 2}
    IN  Preference(DoNotApply,
                   [v \in {DoNotApply} \cup options |-> IF v \in several THEN v ELSE DoNotApply],
                   {DoNotApply, 1, 6} \cup (options \cap {10}), {16} \cup ({10} \ options),
                   [v \in several |-> AapSetPressAndHoldAirPodModeAnc(v)], several)

AapStemControlStateCapability ==
    ReadOnly("event", None,
             {Packet(AapCmd.StemPress, <<press, bud>>) :
                  press \in {5, 8}, bud \in AapStemControlBud},
             {Packet(AapCmd.StemPress, <<4, 1>>)}, AapStemControlStateWatcher)
AapHearingProtectionStrengthCapability ==
    ReadOnly("reported", 0,
             {Setting(AapCmdSettings.HearingProtectionStrength, <<v>>) : v \in {0, 40}},
             {AapSetHearingProtection(1)}, AapHearingProtectionStrengthWatcher)
AapFwInfoCapability ==
    ReadOnly("reported", [k \in 1 .. 11 |-> <<>>],
             {Packet(AapCmd.FwInfo, <<0, 9, 0, 2, 0, 65, 0, v, 0>>) : v \in {49, 50}},
             {Packet(AapCmd.FwInfo, <<0, 2, 0, 2, 0>>)}, AapFwInfoWatcher)

-----------------------------------------------------------------------------
(* Batteries. *)

\* A battery of a report the way the program keeps it.
ConvertBattery(entry) ==
    DeviceBatteryData(entry.type,
        IF entry.status = AapChargingStatus.Disconnected THEN DeviceBatteryStatus.Disconnected
                                                         ELSE DeviceBatteryStatus.Connected,
        entry.level, entry.status = AapChargingStatus.Charging)

AapBatteryCapability ==
    LET Body(left, case) == <<2, 4, 0, left[1], left[2], 0, 8, 0, case[1], case[2], 0>>
        reports == {Packet(AapCmd.Battery, Body(left, case)) :
                        left \in {<<50, 2>>, <<0, 4>>}, case \in {<<80, 1>>, <<127, 2>>, <<0, 4>>}}
        Watch(data) ==
            LET entries == AapBatteryWatcher(data)
            IN  IF entries = None THEN None
                ELSE [i \in DOMAIN entries |-> ConvertBattery(entries[i])]
    IN  Batteries(reports, {Packet(AapCmd.Battery, <<1, 3, 0, 50, 2, 0>>)}, Watch)

AapCapabilityOf(name, m) ==
    CASE name = "anc" -> AapAncCapability(m)
      [] name = "ancOneAirPod" -> AapNoiseCancellationOneAirPodModeCapability
      [] name = "pressAndHoldDuration" -> AapPressAndHoldDurationCapability
      [] name = "pressSpeed" -> AapPressSpeedCapability
      [] name = "volumeSwipe" -> AapVolumeSwipeCapability
      [] name = "volumeSwipeLength" -> AapVolumeSwipeLengthCapability
      [] name = "personalizedVolume" -> AapPersonalizedVolumeCapability
      [] name = "toneVolume" -> AapToneVolumeCapability
      [] name = "endCall" -> AapMuteMicrophoneEndCallCapability
      [] name = "adaptiveAudioNoise" -> AapAdaptiveAudioNoiseCapability
      [] name = "customEq" -> AapCustomEqCapability
      [] name = "hearingProtection" -> AapHearingProtectionCapability
      [] name = "hearingProtectionStrength" -> AapHearingProtectionStrengthCapability
      [] name = "optimizedCharge" -> AapOptimizedChargeCapability
      [] name = "sleepDetection" -> AapSleepDetectionCapability
      [] name = "pressAndHoldAirPodMode" -> AapPressAndHoldAirPodModeCapability
      [] name = "firmwareInfo" -> AapFwInfoCapability
      [] name = "battery" -> AapBatteryCapability
      [] name = "stemControl" -> AapStemControlCapability
      [] name = "stemControlState" -> AapStemControlStateCapability
      [] name = "pressAndHoldAirPodModeAnc" -> AapPressAndHoldAirPodModeAncCapability(m)
      [] name = "ancOffMode" -> AapAncOffModeCapability
      [] name = "digitalCrown" -> AapDigitalCrownCapability

AapCapabilityNames ==
    {"anc", "ancOneAirPod", "pressAndHoldDuration", "pressSpeed", "volumeSwipe",
     "volumeSwipeLength", "personalizedVolume", "toneVolume", "endCall", "adaptiveAudioNoise",
     "customEq", "hearingProtection", "hearingProtectionStrength", "optimizedCharge",
     "sleepDetection", "pressAndHoldAirPodMode", "firmwareInfo", "battery", "stemControl",
     "stemControlState", "pressAndHoldAirPodModeAnc", "ancOffMode", "digitalCrown"}

\* AapDevice::Create() gives a model the capabilities it supports.
Supports(m, name) ==
    /\ name \in AapCapabilityNames
    /\ name \in {"stemControl", "stemControlState"} => m \in StemControlSupported
    /\ name = "pressAndHoldAirPodModeAnc" => m \in PressAndHoldAncSupported
    /\ name = "ancOffMode" => m \in AncOffModeSupported
    /\ name = "digitalCrown" => m \in DigitalCrownSupported

=============================================================================
