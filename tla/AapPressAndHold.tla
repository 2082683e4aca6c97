--------------------------- MODULE AapPressAndHold ---------------------------
(***************************************************************************)
(* What pressing and holding each earbud does, from                         *)
(* src/src/sdk/aap/structs/AapPressAndHoldAirPodModeState.cpp.              *)
(*                                                                         *)
(* A pair holds the mode of the right and of the left earbud. The buds are  *)
(* both on standard modes or both on volume, one for each direction. The    *)
(* headphones keep a pair in use and an alternative one; where one of them  *)
(* is a volume pair the headphones support volume.                          *)
(***************************************************************************)
EXTENDS Naturals

AapPressAndHoldAirPodMode == [Siri |-> 1, NoiseControl |-> 5, VolumeUp |-> 6, VolumeDown |-> 7]

StandardModes == {AapPressAndHoldAirPodMode.Siri, AapPressAndHoldAirPodMode.NoiseControl}
VolumeModes == {AapPressAndHoldAirPodMode.VolumeUp, AapPressAndHoldAirPodMode.VolumeDown}
Modes == StandardModes \cup VolumeModes

ModePair == Modes \X Modes
IsStandardPair(pair) == pair[1] \in StandardModes /\ pair[2] \in StandardModes
IsVolumePair(pair) == pair[1] \in VolumeModes /\ pair[2] \in VolumeModes /\ pair[1] # pair[2]
IsValidPair(pair) == IsStandardPair(pair) \/ IsVolumePair(pair)

ValidPairs == {pair \in ModePair : IsValidPair(pair)}
States == [active : ValidPairs, alternative : ValidPairs]

IsVolumeSupported(state) ==
    \/ state.active[1] \in VolumeModes /\ state.active[2] \in VolumeModes
    \/ state.alternative[1] \in VolumeModes /\ state.alternative[2] \in VolumeModes

\* The mode of one bud out of Kind, from the pair in use rather than from the other one.
Pick(state, bud, Kind, default) ==
    IF state.active[bud] \in Kind THEN state.active[bud]
    ELSE IF state.alternative[bud] \in Kind THEN state.alternative[bud] ELSE default

GetVolumeModes(state) ==
    <<Pick(state, 1, VolumeModes, AapPressAndHoldAirPodMode.VolumeDown),
      Pick(state, 2, VolumeModes, AapPressAndHoldAirPodMode.VolumeUp)>>
GetStandardModes(state) ==
    <<Pick(state, 1, StandardModes, AapPressAndHoldAirPodMode.NoiseControl),
      Pick(state, 2, StandardModes, AapPressAndHoldAirPodMode.NoiseControl)>>

Opposite(volume) ==
    IF volume = AapPressAndHoldAirPodMode.VolumeUp THEN AapPressAndHoldAirPodMode.VolumeDown
                                                   ELSE AapPressAndHoldAirPodMode.VolumeUp

\* The state with the pair in use replaced: a volume pair keeps the standard modes for later,
\* a standard pair the volume modes where there are any.
WithVolume(state, pair) ==
    IF IsVolumeSupported(state) THEN [active |-> pair, alternative |-> GetStandardModes(state)]
    ELSE state
WithStandard(state, pair) ==
    [active |-> pair,
     alternative |-> IF IsVolumeSupported(state) THEN GetVolumeModes(state) ELSE pair]

SetRight(state, right) ==
    IF right \in VolumeModes THEN WithVolume(state, <<right, Opposite(right)>>)
    ELSE IF right \in StandardModes
         THEN WithStandard(state, <<right, GetStandardModes(state)[2]>>)
         ELSE state

SetLeft(state, left) ==
    IF left \in VolumeModes THEN WithVolume(state, <<Opposite(left), left>>)
    ELSE IF left \in StandardModes
         THEN WithStandard(state, <<GetStandardModes(state)[1], left>>)
         ELSE state

=============================================================================
