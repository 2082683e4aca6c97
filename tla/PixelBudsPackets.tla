-------------------------- MODULE PixelBudsPackets --------------------------
(***************************************************************************)
(* The remote calls of Pixel Buds (src/src/sdk/pbp): channels, what the     *)
(* setter writes and the watchers read, and the capabilities that come of   *)
(* them. A message is the function from the paths of its numbers, the       *)
(* fields that lead to each, to the numbers, or None if it cannot be        *)
(* parsed; a request is a method and its message. Every packet is one of    *)
(* the service maestro_pw.Maestro in a frame of its own.                    *)
(***************************************************************************)
EXTENDS CapabilityKinds

PixelBudsModelIds == {"PixelBudsASeries", "PixelBudsPro", "PixelBudsPro2", "PixelBuds2a"}
PixelBudsAncState == [Off |-> 1, Active |-> 2, Aware |-> 3, Adaptive |-> 4]

MaestroPeers ==
    [Case |-> 2, LeftBtCore |-> 3, RightBtCore |-> 4, LeftSensorHub |-> 5, RightSensorHub |-> 6,
     MaestroA |-> 10, MaestroB |-> 13]

\* The channels between the program and a part of the headphones.
ChannelPeers ==
    LET remotes == <<MaestroPeers.Case, MaestroPeers.LeftBtCore, MaestroPeers.LeftSensorHub,
                     MaestroPeers.RightBtCore, MaestroPeers.RightSensorHub>>
    IN  [c \in 18 .. 27 |-> IF c < 23 THEN <<MaestroPeers.MaestroA, remotes[c - 17]>>
                                      ELSE <<MaestroPeers.MaestroB, remotes[c - 22]>>]
GetChannelId(local, remote) ==
    CHOOSE c \in DOMAIN ChannelPeers : ChannelPeers[c] = <<local, remote>>
HasAddress(c) == c \in DOMAIN ChannelPeers
ProbeChannel == GetChannelId(MaestroPeers.MaestroA, MaestroPeers.Case)

RpcPacket(type, channel, method, payload) ==
    [type |-> type, channel |-> channel, method |-> method, payload |-> payload]

-----------------------------------------------------------------------------
(* Requests. *)

Request(method, payload) == [method |-> method, payload |-> payload]
Empty == <<>>
GetSoftwareInfo == Request("GetSoftwareInfo", Empty)
SendPacket(channel, request) == RpcPacket("Request", channel, request.method, request.payload)

ReadSettingIdField == 4
WriteSettingValueField == 4
SettingsRspValueField == 4
CurrentAncrStateValueField == 13
CurrentAncrStateSettingId == 13

PixelBudsSetAnc(state) ==
    Request("WriteSetting", <<WriteSettingValueField, CurrentAncrStateValueField>> :> state)

\* Asked for once the channel is known, in the order SubscribesNext says.
SubscribeToBudsEvents ==
    [runtime |-> Request("SubscribeRuntimeInfo", Empty),
     changes |-> Request("SubscribeToSettingsChanges", Empty),
     setting |-> Request("ReadSetting", <<ReadSettingIdField>> :> CurrentAncrStateSettingId)]
SubscribesNext == [runtime |-> "changes", changes |-> "setting", setting |-> "idle"]

CreateChannelProbes == [attempt \in 1 .. 3 |-> SendPacket(ProbeChannel, GetSoftwareInfo)]

\* The answer to a probe says which channel the headphones are on.
IsSoftwareInfo(packet) ==
    packet.type = "Response" /\ packet.method = "GetSoftwareInfo"

-----------------------------------------------------------------------------
(* Watchers. *)

Field(message, path) ==
    IF message # None /\ path \in DOMAIN message THEN message[path] ELSE None

OfMethod(packet, method, types) == packet.method = method /\ packet.type \in types

PixelBudsGetAncModesFor(m) ==
    CASE m \in {"PixelBudsPro", "PixelBuds2a"}
             -> {PixelBudsAncState.Off, PixelBudsAncState.Aware, PixelBudsAncState.Active}
      [] m = "PixelBudsPro2" -> {PixelBudsAncState[name] : name \in DOMAIN PixelBudsAncState}
      [] OTHER -> {}

PixelBudsAncWatcher(m, packet) ==
    LET state == Field(packet.payload, <<SettingsRspValueField, CurrentAncrStateValueField>>)
    IN  Read(/\ \/ OfMethod(packet, "ReadSetting", {"Response"})
                \/ OfMethod(packet, "SubscribeToSettingsChanges", {"ServerStream", "Response"})
             /\ PixelBudsGetAncModesFor(m) # {}
             /\ state # None /\ Names(PixelBudsAncState, state % 256), state % 256)

BatteryInfoField == 6
BatteryFields == [Case |-> 1, Left |-> 2, Right |-> 3]
LevelField == 1
StateField == 2
BatteryCharging == 2

\* A part that is gone is left out of the message. The level is cast to a short.
ExtractBattery(message, name) ==
    LET Part(field) == Field(message, <<BatteryInfoField, BatteryFields[name], field>>)
        type == DeviceBatteryType[name]
        level == Part(LevelField)
        short == IF level % 65536 < 32768 THEN level % 65536 ELSE (level % 65536) - 65536
    IN  IF level = None THEN DeviceBatteryData(type, DeviceBatteryStatus.Disconnected, 0, FALSE)
        ELSE DeviceBatteryData(type, DeviceBatteryStatus.Connected, short,
                               Part(StateField) = BatteryCharging)

PixelBudsBatteryWatcher(packet) ==
    LET message == packet.payload
    IN  Read(/\ OfMethod(packet, "SubscribeRuntimeInfo", {"ServerStream", "Response"})
             /\ message # None /\ \E path \in DOMAIN message : Head(path) = BatteryInfoField,
             <<ExtractBattery(message, "Left"), ExtractBattery(message, "Right"),
               ExtractBattery(message, "Case")>>)

-----------------------------------------------------------------------------
(* The capabilities, on headphones that use this channel. *)

PixelBudsChannel == GetChannelId(MaestroPeers.MaestroA, MaestroPeers.LeftBtCore)

OnChannel(type, method, payload) == RpcPacket(type, PixelBudsChannel, method, payload)

\* An answer that does not say its channel says zero.
SoftwareInfo == {RpcPacket("Response", c, "GetSoftwareInfo", Empty) : c \in {0, PixelBudsChannel}}

DeviceAncModesToPixelBudsAncState ==
    (DeviceAncModes.Off :> PixelBudsAncState.Off)
        @@ (DeviceAncModes.Transparency :> PixelBudsAncState.Aware)
        @@ (DeviceAncModes.WindCancellation :> PixelBudsAncState.Active)
        @@ (DeviceAncModes.NoiseCancellation :> PixelBudsAncState.Active)
        @@ (DeviceAncModes.Adaptive :> PixelBudsAncState.Adaptive)
PixelBudsAncStateToDeviceAncModes ==
    (PixelBudsAncState.Off :> DeviceAncModes.Off)
        @@ (PixelBudsAncState.Aware :> DeviceAncModes.Transparency)
        @@ (PixelBudsAncState.Active :> DeviceAncModes.NoiseCancellation)
        @@ (PixelBudsAncState.Adaptive :> DeviceAncModes.Adaptive)

PixelBudsAncCapability(m) ==
    LET Value(state) == <<SettingsRspValueField, CurrentAncrStateValueField>> :> state
        has == PixelBudsGetAncModesFor(m)
        reports ==
            {OnChannel("ServerStream", "SubscribeToSettingsChanges", Value(s)) : s \in has}
                \cup {OnChannel("Response", "ReadSetting", Value(s)) :
                          s \in has \cap {PixelBudsAncState.Active}}
        noise ==
            {OnChannel("ServerStream", "SubscribeToSettingsChanges", Empty),
             OnChannel("Response", "WriteSetting", Value(PixelBudsAncState.Active))}
    IN  Narrowing(Anc(DeviceAncModesToPixelBudsAncState, PixelBudsAncStateToDeviceAncModes, has,
                      reports, noise, PixelBudsSetAnc,
                      LAMBDA packet : PixelBudsAncWatcher(m, packet)))

PixelBudsBatteryCapability ==
    LET Part(name, level, state) ==
            (<<BatteryInfoField, BatteryFields[name], LevelField>> :> level)
                @@ (<<BatteryInfoField, BatteryFields[name], StateField>> :> state)
        Runtime(info) == OnChannel("ServerStream", "SubscribeRuntimeInfo", info)
        case == Part("Case", 80, BatteryCharging)
        left == Part("Left", 65535, 1)
        right == Part("Right", 101, 1)
    IN  Batteries({Runtime(left @@ right), Runtime(case @@ right), Runtime(case @@ left @@ right)},
                  {OnChannel("ServerStream", "SubscribeRuntimeInfo", None)},
                  PixelBudsBatteryWatcher)

PixelBudsCapabilityOf(name, m) ==
    IF name = "anc" THEN PixelBudsAncCapability(m) ELSE PixelBudsBatteryCapability

=============================================================================
