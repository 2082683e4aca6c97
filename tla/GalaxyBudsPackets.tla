-------------------------- MODULE GalaxyBudsPackets --------------------------
(***************************************************************************)
(* The packets of Galaxy Buds (src/src/sdk/sgb): their envelope, what the   *)
(* setter writes and the watchers read, and the capabilities that come of   *)
(* them. A packet is between two marks that the program does not know: it   *)
(* learns them from what it receives. What else is in the envelope, a       *)
(* header and a checksum, only tells whether a packet is intact.            *)
(***************************************************************************)
EXTENDS CapabilityKinds

GalaxyBudsModelIds ==
    {"GalaxyBuds", "GalaxyBudsPlus", "GalaxyBudsLive", "GalaxyBudsPro", "GalaxyBuds2",
     "GalaxyBuds2Pro", "GalaxyBudsFe", "GalaxyBudsCore", "GalaxyBuds3", "GalaxyBuds3Pro",
     "GalaxyBuds3Fe", "GalaxyBuds4", "GalaxyBuds4Pro"}

GalaxyBudsMsgIds ==
    [UNIVERSAL_MSG_ID_ACKNOWLEDGEMENT |-> 66, STATUS_UPDATED |-> 96,
     EXTENDED_STATUS_UPDATED |-> 97, NOISE_CONTROLS_UPDATE |-> 119, NOISE_CONTROLS |-> 120]
GalaxyBudsAnc == [Off |-> 0, NoiseReduction |-> 1, AmbientSound |-> 2, Adaptive |-> 3]

-----------------------------------------------------------------------------
(* The envelope. *)

\* marks is the pair of startOfMessage and endOfMessage, a request an id and its payload.
Encode(marks, request) ==
    [marks |-> marks, id |-> Head(request), payload |-> Tail(request), intact |-> TRUE]

\* The first packet of what was received; what follows it in the same read is not looked at.
Extract(data) == Read(data.intact /\ Names(GalaxyBudsMsgIds, data.id), data)

-----------------------------------------------------------------------------
(* Noise control. *)

GalaxyBudsGetAncModesFor(m) ==
    CASE m = "GalaxyBuds3" -> {GalaxyBudsAnc.Off, GalaxyBudsAnc.NoiseReduction}
      [] m \in {"GalaxyBudsPro", "GalaxyBuds2", "GalaxyBuds2Pro", "GalaxyBudsFe",
                "GalaxyBudsCore", "GalaxyBuds3Fe"}
             -> {GalaxyBudsAnc.Off, GalaxyBudsAnc.AmbientSound, GalaxyBudsAnc.NoiseReduction}
      [] m \in {"GalaxyBuds3Pro", "GalaxyBuds4", "GalaxyBuds4Pro"}
             -> {GalaxyBudsAnc[name] : name \in DOMAIN GalaxyBudsAnc}
      [] OTHER -> {}

GalaxyBudsSetAnc(mode) == <<GalaxyBudsMsgIds.NOISE_CONTROLS, mode>>

\* A status, an update or the answer to a request; the mode need not be one the model has.
GalaxyBudsAncWatcher(m, data) ==
    LET packet == Extract(data)
        State(i) == Read(/\ Len(packet.payload) > i
                         /\ GalaxyBudsGetAncModesFor(m) # {}
                         /\ Names(GalaxyBudsAnc, At(packet.payload, i)), At(packet.payload, i))
    IN  CASE packet = None -> None
          [] packet.id = GalaxyBudsMsgIds.EXTENDED_STATUS_UPDATED -> State(12)
          [] packet.id = GalaxyBudsMsgIds.NOISE_CONTROLS_UPDATE -> State(0)
          [] /\ packet.id = GalaxyBudsMsgIds.UNIVERSAL_MSG_ID_ACKNOWLEDGEMENT
             /\ Len(packet.payload) > 1
             /\ At(packet.payload, 0) = GalaxyBudsMsgIds.NOISE_CONTROLS -> State(1)
          [] OTHER -> None

DeviceAncModesToGalaxyBudsAnc ==
    (DeviceAncModes.Off :> GalaxyBudsAnc.Off)
        @@ (DeviceAncModes.Transparency :> GalaxyBudsAnc.AmbientSound)
        @@ (DeviceAncModes.WindCancellation :> GalaxyBudsAnc.NoiseReduction)
        @@ (DeviceAncModes.NoiseCancellation :> GalaxyBudsAnc.NoiseReduction)
        @@ (DeviceAncModes.Adaptive :> GalaxyBudsAnc.Adaptive)
GalaxyBudsAncToDeviceAncModes ==
    (GalaxyBudsAnc.Off :> DeviceAncModes.Off)
        @@ (GalaxyBudsAnc.AmbientSound :> DeviceAncModes.Transparency)
        @@ (GalaxyBudsAnc.NoiseReduction :> DeviceAncModes.NoiseCancellation)
        @@ (GalaxyBudsAnc.Adaptive :> DeviceAncModes.Adaptive)

-----------------------------------------------------------------------------
(* Batteries. *)

Bit(b, value) == (b \div value) % 2 = 1

\* 255 stands for a case that is not reported.
GalaxyBudsConvertBattery(l, r, c, charging) ==
    LET Battery(type, level, bit) ==
            DeviceBatteryData(type, IF level = 0 THEN DeviceBatteryStatus.Disconnected
                                    ELSE DeviceBatteryStatus.Connected, level, Bit(charging, bit))
    IN  <<Battery(DeviceBatteryType.Left, l, 16), Battery(DeviceBatteryType.Right, r, 4)>>
            \o IF c = 255 THEN <<>> ELSE <<Battery(DeviceBatteryType.Case, c, 1)>>

\* The byte that tells which batteries are charging; a size for models that do not tell.
ExtendedChargingAt(m, payload) ==
    CASE m = "GalaxyBuds2" /\ At(payload, 0) >= 10 -> 36
      [] m = "GalaxyBuds2Pro" /\ At(payload, 0) >= 11 -> 43
      [] m \in {"GalaxyBudsFe", "GalaxyBudsCore"} -> 43
      [] m \in {"GalaxyBuds3", "GalaxyBuds3Pro", "GalaxyBuds3Fe", "GalaxyBuds4", "GalaxyBuds4Pro"}
             -> 42
      [] OTHER -> Len(payload)
ChargingAt(m, payload) ==
    IF m \in {"GalaxyBuds", "GalaxyBudsPlus", "GalaxyBudsLive", "GalaxyBudsPro"} THEN Len(payload)
    ELSE 7

IsCaseBatterySupport(m) == m # "GalaxyBuds"

GalaxyBudsBatteryWatcher(m, data) ==
    LET packet == Extract(data)
        Byte(i, default) == IF Len(packet.payload) > i THEN At(packet.payload, i) ELSE default
        \* The left and the right battery are one after the other.
        Convert(left, case, charging) ==
            Read(Len(packet.payload) > 3,
                 GalaxyBudsConvertBattery(At(packet.payload, left), At(packet.payload, left + 1),
                                          IF IsCaseBatterySupport(m) THEN Byte(case, 255) ELSE 255,
                                          Byte(charging, 0)))
    IN  CASE packet = None -> None
          [] packet.id = GalaxyBudsMsgIds.EXTENDED_STATUS_UPDATED
                 -> Convert(2, 7, ExtendedChargingAt(m, packet.payload))
          [] packet.id = GalaxyBudsMsgIds.STATUS_UPDATED
                 -> Convert(1, 6, ChargingAt(m, packet.payload))
          [] OTHER -> None

-----------------------------------------------------------------------------
(* The capabilities, on headphones with these marks. *)

GalaxyBudsMarks(m) == IF m = "GalaxyBuds" THEN <<254, 238>> ELSE <<253, 221>>

\* A payload of n bytes, some of which are not zero.
Payload(n, bytes) == [i \in 1 .. n |-> IF i - 1 \in DOMAIN bytes THEN bytes[i - 1] ELSE 0]
Response(m, id, payload) == Encode(GalaxyBudsMarks(m), <<id>> \o payload)

GalaxyBudsAncCapability(m) ==
    LET Update(mode) == Response(m, GalaxyBudsMsgIds.NOISE_CONTROLS_UPDATE, <<mode, 0>>)
        Answer(mode) == Response(m, GalaxyBudsMsgIds.UNIVERSAL_MSG_ID_ACKNOWLEDGEMENT,
                                 GalaxyBudsSetAnc(mode))
        Status(mode) ==
            Response(m, GalaxyBudsMsgIds.EXTENDED_STATUS_UPDATED, Payload(13, 12 :> mode))
        has == GalaxyBudsGetAncModesFor(m)
        reports == {Update(mode) : mode \in has}
                       \cup {Answer(mode) : mode \in has \cap {GalaxyBudsAnc.NoiseReduction}}
                       \cup {Status(mode) : mode \in has \cap {GalaxyBudsAnc.Off}}
        noise ==
            {Update(9), Response(m, GalaxyBudsMsgIds.UNIVERSAL_MSG_ID_ACKNOWLEDGEMENT, <<119, 0>>),
             Response(m, 1, <<0>>), [Update(GalaxyBudsAnc.Off) EXCEPT !.intact = FALSE]}
    IN  Narrowing(Anc(DeviceAncModesToGalaxyBudsAnc, GalaxyBudsAncToDeviceAncModes, has, reports,
                      noise, GalaxyBudsSetAnc, LAMBDA data : GalaxyBudsAncWatcher(m, data)))

GalaxyBudsBatteryCapability(m) ==
    LET Extended(left, case) ==
            Response(m, GalaxyBudsMsgIds.EXTENDED_STATUS_UPDATED,
                     Payload(44, (0 :> 11) @@ (2 :> left) @@ (3 :> 30) @@ (7 :> case)
                                     @@ (36 :> 16) @@ (42 :> 16) @@ (43 :> 16)))
        Status(left, case) ==
            Response(m, GalaxyBudsMsgIds.STATUS_UPDATED,
                     Payload(8, (1 :> left) @@ (2 :> 30) @@ (6 :> case) @@ (7 :> 5)))
    IN  Batteries({Extended(50, 80), Extended(0, 0), Status(40, 255), Status(101, 0)},
                  {Response(m, GalaxyBudsMsgIds.STATUS_UPDATED, <<0, 0, 0>>)},
                  LAMBDA data : GalaxyBudsBatteryWatcher(m, data))

GalaxyBudsCapabilityOf(name, m) ==
    IF name = "anc" THEN GalaxyBudsAncCapability(m) ELSE GalaxyBudsBatteryCapability(m)

=============================================================================
