----------------------------- MODULE AapPackets -----------------------------
(***************************************************************************)
(* The packets of Apple headphones: what the setters of src/src/sdk/aap     *)
(* write and what its watchers read.                                        *)
(***************************************************************************)
EXTENDS Packets

AapCmd == [Battery |-> 4, EarDetection |-> 6, Settings |-> 9, Notifications |-> 15, StemPress |-> 25,
           FwInfo |-> 29, ConversationAwareness |-> 75, Microphone |-> 88, CustomEq |-> 99]

AapCmdSettings ==
    [Anc |-> 13, PressAndHoldAirPodMode |-> 22, PressSpeed |-> 23, PressAndHoldDuration |-> 24,
     PressAndHoldAirPodModeAnc |-> 26, NoiseCancellationOneAirPod |-> 27, DigitalCrown |-> 28,
     ToneVolume |-> 31, VolumeSwipeLength |-> 35, EndCall |-> 36, VolumeSwipe |-> 37,
     PersonalizedVolume |-> 38, ConversationAwareness |-> 40, AdaptiveAudioNoise |-> 46, AncOffMode |-> 52,
     SleepDetection |-> 53, HearingProtection |-> 55, HearingProtectionStrength |-> 56,
     StemControl |-> 57, OptimizedCharge |-> 59]

-----------------------------------------------------------------------------
(* The values of the settings that have a name. *)

AapAncMode == [Off |-> 1, Anc |-> 2, Transparency |-> 3, Adaptive |-> 4]
AapAncOffMode == {1, 2}
AapCustomEqState == [Disabled |-> 1, Enabled |-> 2]
AapDigitalCrownMode == {1, 2}
AapHearingProtectionMode == [Unknown |-> 0, On |-> 1, Off |-> 2]
AapEndCallMode == [DoublePress |-> 2, SinglePress |-> 3]
AapMuteMicrophoneMode == [DoublePress |-> 34, SinglePress |-> 35]
AapNoiseCancellationOneAirPodMode == [On |-> 1, Off |-> 2]
AapOptimizedChargeMode == [On |-> 1, Off |-> 2]
AapPersonalizedVolumeMode == [On |-> 1, Off |-> 2]
AapPressAndHoldDurationMode == 0 .. 2
AapPressSpeedMode == 0 .. 2
AapSleepDetectionMode == [On |-> 1, Off |-> 2]
AapStemControlPress == 5 .. 8
AapStemControlBud == {1, 2}
AapVolumeSwipeLengthMode == 0 .. 2
AapVolumeSwipeMode == [On |-> 1, Off |-> 2]

AapBatteryType == [Single |-> 1, Right |-> 2, Left |-> 4, Case |-> 8]
AapChargingStatus == [Undefined |-> 0, Charging |-> 1, NotCharging |-> 2, Disconnected |-> 4]

-----------------------------------------------------------------------------
(* Setters. *)

Packet(cmd, body) == <<4, 0, 4, 0, cmd, 0>> \o body
Setting(setting, bytes) == Packet(AapCmd.Settings, <<setting>> \o bytes)

AapEnableNotifications(mode) == Packet(AapCmd.Notifications, <<255, 255, mode, 255>>)
AapSetAdaptiveAudioNoise(mode) ==
    Setting(AapCmdSettings.AdaptiveAudioNoise, <<IF mode > 100 THEN 100 ELSE mode, 0, 0, 0>>)
AapSetAnc(mode) == Setting(AapCmdSettings.Anc, <<mode, 0, 0, 0>>)
AapSetAncOffMode(mode) == Setting(AapCmdSettings.AncOffMode, <<mode, 0, 0, 0>>)
AapSetCustomEq(eq) ==
    LET Level(x) == IF x > 100 THEN 100 ELSE x
    IN  Packet(AapCmd.CustomEq,
            <<5, 0, 1, eq.state, Level(eq.low), Level(eq.mid), Level(eq.high)>>)
AapSetDigitalCrown(mode) == Setting(AapCmdSettings.DigitalCrown, <<mode, 0, 0, 0>>)
AapSetHearingProtection(mode) == Setting(AapCmdSettings.HearingProtection, <<mode, 0, 0, 0>>)
\* One of the two calls gets the single press, so the other one gets the double press.
AapSetMuteMicrophoneEndCall(mode) ==
    Setting(AapCmdSettings.EndCall,
        <<33, IF mode = AapEndCallMode.SinglePress THEN AapMuteMicrophoneMode.DoublePress
                                                   ELSE AapMuteMicrophoneMode.SinglePress,
          mode, 0>>)
AapSetNoiseCancellationOneAirPod(mode) ==
    Setting(AapCmdSettings.NoiseCancellationOneAirPod, <<mode, 0, 0, 0>>)
AapSetOptimizedCharge(mode) == Setting(AapCmdSettings.OptimizedCharge, <<mode, 0, 0, 0>>)
AapSetPersonalizedVolume(mode) == Setting(AapCmdSettings.PersonalizedVolume, <<mode, 0, 0, 0>>)
AapSetPressAndHoldAirPodMode(state) ==
    Setting(AapCmdSettings.PressAndHoldAirPodMode, state.active \o state.alternative)
AapSetPressAndHoldAirPodModeAnc(modes) ==
    Setting(AapCmdSettings.PressAndHoldAirPodModeAnc, <<modes, 0, 0, 0>>)
AapSetPressAndHoldDuration(mode) ==
    Setting(AapCmdSettings.PressAndHoldDuration, <<mode, 0, 0, 0>>)
AapSetPressSpeed(mode) == Setting(AapCmdSettings.PressSpeed, <<mode, 0, 0, 0>>)
AapSetSleepDetection(mode) == Setting(AapCmdSettings.SleepDetection, <<mode, 0, 0, 0>>)
AapSetStemControl(modes) == Setting(AapCmdSettings.StemControl, <<modes, 0, 0, 0>>)
AapSetToneVolume(mode) ==
    Setting(AapCmdSettings.ToneVolume,
        <<IF mode < 15 THEN 15 ELSE IF mode > 100 THEN 100 ELSE mode, 0, 0, 0>>)
AapSetVolumeSwipe(mode) == Setting(AapCmdSettings.VolumeSwipe, <<mode, 0, 0, 0>>)
AapSetVolumeSwipeLength(mode) == Setting(AapCmdSettings.VolumeSwipeLength, <<mode, 0, 0, 0>>)

-----------------------------------------------------------------------------
(* Watchers. *)

Of(data, size, cmd) == Len(data) >= size /\ At(data, 4) = cmd
OfSetting(data, size, setting) == Of(data, size, AapCmd.Settings) /\ At(data, 6) = setting

AapAdaptiveAudioNoiseWatcher(data) ==
    Read(OfSetting(data, 10, AapCmdSettings.AdaptiveAudioNoise), At(data, 7))
AapAncWatcher(data) == Read(OfSetting(data, 10, AapCmdSettings.Anc), At(data, 7))
AapCustomEqWatcher(data) ==
    Read(/\ Of(data, 13, AapCmd.CustomEq)
         /\ At(data, 6) = 5 /\ At(data, 7) = 0 /\ At(data, 8) = 1
         /\ Names(AapCustomEqState, At(data, 9))
         /\ \A i \in 10 .. 12 : At(data, i) <= 100,
         [state |-> At(data, 9), low |-> At(data, 10), mid |-> At(data, 11),
          high |-> At(data, 12)])
AapHearingProtectionStrengthWatcher(data) ==
    Read(OfSetting(data, 8, AapCmdSettings.HearingProtectionStrength), At(data, 7))
AapHearingProtectionWatcher(data) ==
    Read(/\ OfSetting(data, 8, AapCmdSettings.HearingProtection)
         /\ Names(AapHearingProtectionMode, At(data, 7)), At(data, 7))
\* 0x21 says what each call is, 0x20 only which one has the single press.
AapMuteMicrophoneEndCallWatcher(data) ==
    Read(/\ OfSetting(data, 10, AapCmdSettings.EndCall)
         /\ \/ /\ At(data, 7) = 33
               /\ Names(AapMuteMicrophoneMode, At(data, 8)) /\ Names(AapEndCallMode, At(data, 9))
            \/ At(data, 7) = 32 /\ At(data, 8) \in {2, 3},
         IF At(data, 7) = 33 THEN At(data, 9)
         ELSE IF At(data, 8) = 3 THEN AapEndCallMode.DoublePress ELSE AapEndCallMode.SinglePress)
AapNoiseCancellationOneAirPodWatcher(data) ==
    Read(/\ OfSetting(data, 10, AapCmdSettings.NoiseCancellationOneAirPod)
         /\ Names(AapNoiseCancellationOneAirPodMode, At(data, 7)), At(data, 7))
AapOptimizedChargeWatcher(data) ==
    Read(/\ OfSetting(data, 8, AapCmdSettings.OptimizedCharge)
         /\ Names(AapOptimizedChargeMode, At(data, 7)), At(data, 7))
AapPersonalizedVolumeWatcher(data) ==
    Read(/\ OfSetting(data, 10, AapCmdSettings.PersonalizedVolume)
         /\ Names(AapPersonalizedVolumeMode, At(data, 7)), At(data, 7))
AapPressAndHoldDurationWatcher(data) ==
    Read(/\ OfSetting(data, 10, AapCmdSettings.PressAndHoldDuration)
         /\ At(data, 7) \in AapPressAndHoldDurationMode, At(data, 7))
AapPressSpeedWatcher(data) ==
    Read(/\ OfSetting(data, 10, AapCmdSettings.PressSpeed)
         /\ At(data, 7) \in AapPressSpeedMode, At(data, 7))
AapSleepDetectionWatcher(data) ==
    Read(/\ OfSetting(data, 8, AapCmdSettings.SleepDetection)
         /\ Names(AapSleepDetectionMode, At(data, 7)), At(data, 7))
AapStemControlStateWatcher(data) ==
    Read(/\ Of(data, 8, AapCmd.StemPress)
         /\ At(data, 6) \in AapStemControlPress /\ At(data, 7) \in AapStemControlBud,
         [press |-> At(data, 6), bud |-> At(data, 7)])
AapToneVolumeWatcher(data) == Read(OfSetting(data, 10, AapCmdSettings.ToneVolume), At(data, 7))
AapVolumeSwipeLengthWatcher(data) ==
    Read(/\ OfSetting(data, 10, AapCmdSettings.VolumeSwipeLength)
         /\ At(data, 7) \in AapVolumeSwipeLengthMode, At(data, 7))
AapVolumeSwipeWatcher(data) ==
    Read(/\ OfSetting(data, 10, AapCmdSettings.VolumeSwipe)
         /\ Names(AapVolumeSwipeMode, At(data, 7)), At(data, 7))

\* The strings after the service field, each of which ends with a zero; the first one names
\* the headphones and must not be empty.
AapFwInfoWatcher(data) ==
    LET zeros == SetToSortSeq({i \in 10 .. Len(data) : data[i] = 0}, <)
        Field(k) == IF k > Len(zeros) THEN <<>>
                    ELSE SubSeq(data, zeros[k] + 1,
                                IF k < Len(zeros) THEN zeros[k + 1] - 1 ELSE Len(data))
    IN  Read(Of(data, 10, AapCmd.FwInfo) /\ Field(1) # <<>>, [k \in 1 .. 11 |-> Field(k)])

\* Five bytes for each battery: type, unused, level, status, unused. The loop does not get past
\* a type or status it does not know, so what follows is not read.
AapBatteryWatcher(data) ==
    LET Entry(i) == [type |-> At(data, 2 + 5 * i),
                     level |-> IF At(data, 4 + 5 * i) > 100 THEN 100 ELSE At(data, 4 + 5 * i),
                     status |-> At(data, 5 + 5 * i)]
        Known(i) == /\ Names(AapBatteryType, Entry(i).type)
                    /\ Names(AapChargingStatus, Entry(i).status)
        read == {i \in 1 .. At(data, 6) : \A j \in 1 .. i : Known(j)}
    IN  Read(Of(data, 11, AapCmd.Battery) /\ read # {}, [i \in read |-> Entry(i)])

=============================================================================
