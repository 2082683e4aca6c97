------------------------------- MODULE Models -------------------------------
(***************************************************************************)
(* Which kind of headphones a paired device is, DevicesInfoFetcher's       *)
(* CreateDevice() and the helpers it asks, and what Galaxy Buds say about  *)
(* being worn. A name is the sequence of its words in lower case, of which *)
(* a number in parentheses is one; a service is the name of its guid; a    *)
(* guid with the device id's prefix is [id |-> number], or, if it is not   *)
(* four digits long, [id |-> 0].                                           *)
(***************************************************************************)
EXTENDS GalaxyBudsPackets

BtVendorIds == [Apple |-> 76, Sony |-> 1356, Google |-> 224]
PixelBudsModelIds == [PixelBudsASeries |-> 12291, PixelBudsPro |-> 12292,
                      PixelBudsPro2 |-> 12293, PixelBuds2a |-> 12294]

HasWords(name, words) ==
    \E i \in 0..(Len(name) - Len(words)) : SubSeq(name, i + 1, i + Len(words)) = words

(***************************************************************************)
(* GalaxyBudsHelper                                                        *)
(***************************************************************************)
GalaxyBudsColoredModelIds ==
    [GalaxyBuds |-> {257, 14336}, GalaxyBudsPlus |-> 258..266, GalaxyBudsLive |-> 278..284,
     GalaxyBudsPro |-> 298..301, GalaxyBuds2 |-> 313..321 \cup {14337},
     GalaxyBudsCore |-> 322..323, GalaxyBuds2Pro |-> 326..328, GalaxyBudsFe |-> 330..331,
     GalaxyBuds3 |-> 333..334, GalaxyBuds3Pro |-> 340..341, GalaxyBuds3Fe |-> 347..348,
     GalaxyBuds4 |-> 355..356, GalaxyBuds4Pro |-> 359..361]
GalaxyBudsModelIdsArray ==
    UNION {GalaxyBudsColoredModelIds[m] : m \in DOMAIN GalaxyBudsColoredModelIds}

GetModelFromColoredModel(id) ==
    CHOOSE m \in GalaxyBudsModelIds : id \in GalaxyBudsColoredModelIds[m]

\* In this order: the first that is found.
NamePatterns ==
    <<<<"GalaxyBuds", <<"galaxy", "buds", "(0)">> >>, <<"GalaxyBudsPlus", <<"galaxy", "buds+", "(0)">> >>,
      <<"GalaxyBudsLive", <<"buds", "live">> >>, <<"GalaxyBudsPro", <<"buds", "pro">> >>,
      <<"GalaxyBuds2Pro", <<"buds2", "pro">> >>, <<"GalaxyBuds2", <<"buds2">> >>,
      <<"GalaxyBudsFe", <<"buds", "fe">> >>, <<"GalaxyBuds3Pro", <<"buds3", "pro">> >>,
      <<"GalaxyBuds3Fe", <<"buds3", "fe">> >>, <<"GalaxyBuds3", <<"buds3">> >>,
      <<"GalaxyBudsCore", <<"buds", "core">> >>, <<"GalaxyBuds4Pro", <<"buds4", "pro">> >>,
      <<"GalaxyBuds4", <<"buds4">> >> >>
GetModelFromName(name) ==
    LET first == SelectInSeq(NamePatterns, LAMBDA p : HasWords(name, p[2]))
    IN  IF first = 0 THEN "Unknown" ELSE NamePatterns[first][1]

IsGalaxyBudsDevice(guids) ==
    guids.services \cap {"GALAXYBUDSNEW", "GALAXYBUDS", "GALAXYBUDSLEGASY"} # {}

\* Fault: the name is asked first.
SearchModelByName(guids, name) ==
    IF "GALAXYBUDSNEW" \in guids.services /\ guids.ids = <<>> THEN "GalaxyBuds2"
    ELSE GetModelFromName(name)

\* Of the guids with the prefix the first one counts.
SearchModel(guids, name) ==
    IF "GALAXYBUDSNEW" \notin guids.services THEN GetModelFromName(name)
    ELSE IF guids.ids = <<>>
    THEN IF {"HANDSFREE", "LEAUDIO"} \subseteq guids.services THEN "GalaxyBuds2Pro" ELSE "GalaxyBuds2"
    ELSE IF Head(guids.ids) \in GalaxyBudsModelIdsArray
    THEN GetModelFromColoredModel(Head(guids.ids)) ELSE GetModelFromName(name)

GetServiceGuid(m) ==
    CASE m = "GalaxyBuds" -> "GALAXYBUDSLEGASY"
      [] m \in {"GalaxyBudsPlus", "GalaxyBudsLive", "GalaxyBudsPro"} -> "GALAXYBUDS"
      [] OTHER -> "GALAXYBUDSNEW"

(***************************************************************************)
(* The kind of a device: its class, the model and the service it is called *)
(* on, if it has a client.                                                 *)
(***************************************************************************)
IsAapDevice(device) == device.vendor = BtVendorIds.Apple /\ device.apple

SearchPixelModel(device) ==
    IF /\ "MAESTRO" \in device.guids.services /\ device.vendor = BtVendorIds.Google
       /\ Names(PixelBudsModelIds, device.product)
    THEN CHOOSE m \in DOMAIN PixelBudsModelIds : PixelBudsModelIds[m] = device.product
    ELSE "Unknown"

Kind(class, model, service) == [class |-> class, model |-> model, service |-> service]

CreateDevice(device) ==
    LET galaxy == SearchModel(device.guids, device.name)
        pixel == SearchPixelModel(device)
    IN  IF IsAapDevice(device) THEN Kind("Aap", "Apple", None)
        ELSE IF IsGalaxyBudsDevice(device.guids) /\ galaxy # "Unknown"
        THEN Kind("GalaxyBuds", galaxy, GetServiceGuid(galaxy))
        ELSE IF pixel # "Unknown" THEN Kind("PixelBuds", pixel, "MAESTRO")
        ELSE IF "HANDSFREE" \in device.guids.services THEN Kind("Bhf", "Unknown", None)
        ELSE None

(***************************************************************************)
(* Wearing Galaxy Buds. The program does not have these two capabilities   *)
(* at the moment: the headphones pause and play by themselves.             *)
(***************************************************************************)
GalaxyBudsEarDetectionState == [Disconnected |-> 0, Wearing |-> 1, Idle |-> 2, Case |-> 3,
                                ClosedCase |-> 4]
GalaxyBudsLegacyEarDetectionState == [None |-> 0, R |-> 1, L |-> 16, Both |-> 17]

ExtractState(m, b) ==
    LET Legacy(bit) == IF Bit(b, bit) THEN GalaxyBudsEarDetectionState.Wearing
                       ELSE GalaxyBudsEarDetectionState.Idle
    IN  CASE m = "GalaxyBuds" ->
                 Read(Names(GalaxyBudsLegacyEarDetectionState, b), <<Legacy(16), Legacy(1)>>)
          [] m \in GalaxyBudsModelIds \ {"GalaxyBuds", "GalaxyBudsCore"} ->
                 Read(/\ Names(GalaxyBudsEarDetectionState, b \div 16)
                      /\ Names(GalaxyBudsEarDetectionState, b % 16), <<b \div 16, b % 16>>)
          [] OTHER -> None

GalaxyBudsEarDetectionWatcher(m, packet) ==
    LET State(i) == IF Len(packet.payload) > i THEN ExtractState(m, At(packet.payload, i)) ELSE None
    IN  CASE packet.id = GalaxyBudsMsgIds.EXTENDED_STATUS_UPDATED -> State(6)
          [] packet.id = GalaxyBudsMsgIds.STATUS_UPDATED -> State(5)
          [] OTHER -> None

\* The status of two headphones, and what it asks of the media.
ToDeviceEarDetectionData(state) ==
    LET there == {i \in {1, 2} : state[i] # GalaxyBudsEarDetectionState.Disconnected}
        worn == {i \in {1, 2} : state[i] = GalaxyBudsEarDetectionState.Wearing}
    IN  CASE there = {} -> "NotAvailable"
          [] there # {} /\ worn = {} -> "NotWorn"
          [] there # {} /\ worn = there -> "Worn"
          [] OTHER -> "PartiallyWorn"
GetMediaStatus(status) ==
    CASE status = "NotAvailable" -> <<>> [] status = "Worn" -> <<"Play">> [] OTHER -> <<"Pause">>

NoEars == [isAvailable |-> FALSE, option |-> "NotAvailable", commands |-> <<>>]

\* Both capabilities: one commands the media if the setting is on, the other shows the status.
OnEarDetection(m, pauses, ears, packet) ==
    LET state == GalaxyBudsEarDetectionWatcher(m, packet)
        new == ToDeviceEarDetectionData(state)
    IN  IF state = None \/ (ears.isAvailable /\ ears.option = new) THEN ears
        ELSE [isAvailable |-> TRUE, option |-> new,
              commands |-> ears.commands \o IF pauses THEN GetMediaStatus(new) ELSE <<>>]

(***************************************************************************)
(* The devices there are.                                                  *)
(***************************************************************************)
ServiceOf(m) ==
    CASE m = "GalaxyBuds" -> "GALAXYBUDSLEGASY"
      [] m \in {"GalaxyBudsPlus", "GalaxyBudsLive", "GalaxyBudsPro"} -> "GALAXYBUDS"
      [] OTHER -> "GALAXYBUDSNEW"
NameOf ==
    [GalaxyBuds |-> <<"buds">>, GalaxyBudsPlus |-> <<"buds+">>, GalaxyBudsLive |-> <<"buds", "live">>,
     GalaxyBudsPro |-> <<"buds", "pro">>, GalaxyBuds2 |-> <<"buds2">>,
     GalaxyBudsCore |-> <<"buds", "core">>, GalaxyBuds2Pro |-> <<"buds2", "pro">>,
     GalaxyBudsFe |-> <<"buds", "fe">>, GalaxyBuds3 |-> <<"buds3">>,
     GalaxyBuds3Pro |-> <<"buds3", "pro">>, GalaxyBuds3Fe |-> <<"buds3", "fe">>,
     GalaxyBuds4 |-> <<"buds4">>, GalaxyBuds4Pro |-> <<"buds4", "pro">>]

\* With the guid of a known color, of a color that came after the program, a guid of another
\* length, or none; under the name they are sold with or the user's.
GalaxyBuds ==
    UNION {[kind : {"galaxy"}, model : {m}, id : GalaxyBudsColoredModelIds[m] \cup {0, 999, None},
            sold : BOOLEAN, le : BOOLEAN] : m \in GalaxyBudsModelIds}
GalaxyDevice(input) ==
    [vendor |-> 117, apple |-> FALSE, product |-> 1,
     name |-> IF input.sold THEN <<"galaxy">> \o NameOf[input.model] \o <<"(0)">> ELSE <<"kitchen">>,
     guids |-> [services |-> {ServiceOf(input.model), "HANDSFREE"}
                                 \cup (IF input.le THEN {"LEAUDIO"} ELSE {}),
                ids |-> IF input.id = None THEN <<>> ELSE <<input.id>>]]

\* Other makers' headphones have hands-free and serial ports too.
Others ==
    [kind : {"other"}, vendor : {BtVendorIds.Apple, BtVendorIds.Google, 999},
     apple : BOOLEAN, product : {1, 12291, 12294}, name : {<<"pixel", "buds", "2a">>, <<"wh-1000xm4">>},
     services : SUBSET {"GALAXYBUDS", "HANDSFREE", "MAESTRO"}]
OtherDevice(input) ==
    [vendor |-> input.vendor, apple |-> input.apple, product |-> input.product,
     name |-> input.name, guids |-> [services |-> input.services, ids |-> <<>>]]

Wearings ==
    [kind : {"wearing"}, model : {"GalaxyBuds", "GalaxyBudsPlus", "GalaxyBuds4Pro"},
     states : SeqOf((0..2) \X {0, 1, 3, 9}, 3), pauses : BOOLEAN]
WearingByte(m, state) ==
    IF m = "GalaxyBuds" /\ 9 \notin {state[1], state[2]}
    THEN (IF state[1] = 1 THEN 16 ELSE 0) + (IF state[2] = 1 THEN 1 ELSE 0)
    ELSE 16 * state[1] + state[2]
WearingPacket(m, i, state) ==
    LET extended == i % 2 = 0 IN
    Response(m, IF extended THEN GalaxyBudsMsgIds.EXTENDED_STATUS_UPDATED
                ELSE GalaxyBudsMsgIds.STATUS_UPDATED,
             Payload(8, (IF extended THEN 6 ELSE 5) :> WearingByte(m, state)))
\* The old ones do not tell a headphone that is gone from one that is not worn.
StatusOf(m, state) ==
    LET gone == IF m = "GalaxyBuds" THEN {} ELSE {i \in {1, 2} : state[i] = 0}
        worn == {i \in {1, 2} : state[i] = 1} IN
    CASE gone = {1, 2} -> "NotAvailable"
      [] gone # {1, 2} /\ worn = {} -> "NotWorn"
      [] worn \cup gone = {1, 2} /\ worn # {} -> "Worn"
      [] OTHER -> "PartiallyWorn"
Statuses(input) ==
    LET understood == SelectSeq(input.states, LAMBDA state : state[2] # 9)
    IN  [i \in DOMAIN understood |-> StatusOf(input.model, understood[i])]
Commands(statuses) ==
    LET Of(i) == IF i > 1 /\ statuses[i] = statuses[i - 1] THEN <<>> ELSE GetMediaStatus(statuses[i])
    IN  FlattenSeq([i \in DOMAIN statuses |-> Of(i)])
Wears(input) ==
    LET Next(ears, i) == OnEarDetection(input.model, input.pauses, ears,
                                        WearingPacket(input.model, i, input.states[i]))
    IN  FoldLeftDomain(Next, NoEars, input.states)

\* A device is taken for what it is: Galaxy Buds for their model, by color, name or both,
\* and where only a guess is left for a model that is called on a service they have; no
\* other maker's headphones for Galaxy Buds because they have a serial port; Pixel Buds only
\* with the service they are called on; the rest as hands-free headphones. What Galaxy Buds
\* say of the ears ends in the status of the last report that is understood, and in one
\* command to the media for every change of it, whichever of the two kinds of report it comes
\* in; none when both are gone, and none if the user does not want it.
ModelsTrue(input) ==
    CASE input.kind = "galaxy" ->
             LET device == GalaxyDevice(input)
                 kind == CreateDevice(device)
                 known == input.id \notin {0, 999, None} /\ ServiceOf(input.model) = "GALAXYBUDSNEW"
                 guessed == input.id = None /\ ServiceOf(input.model) = "GALAXYBUDSNEW" IN
             /\ kind.class = IF known \/ guessed \/ input.sold THEN "GalaxyBuds" ELSE "Bhf"
             /\ kind.class = "GalaxyBuds" => kind.service \in device.guids.services
             /\ known \/ (input.sold /\ ~guessed) => kind.model = input.model
      [] input.kind = "other" ->
             LET device == OtherDevice(input)
                 kind == CreateDevice(device) IN
             CASE device.vendor = BtVendorIds.Apple /\ device.apple -> kind.class = "Aap"
               [] /\ device.vendor = BtVendorIds.Google /\ device.product # 1
                  /\ "MAESTRO" \in input.services ->
                      kind.class = "PixelBuds" /\ kind.service \in input.services
               [] OTHER -> kind = IF "HANDSFREE" \in input.services
                                  THEN Kind("Bhf", "Unknown", None) ELSE None
      [] OTHER ->
             LET statuses == Statuses(input)
                 ears == Wears(input) IN
             /\ ears.option = IF statuses = <<>> THEN "NotAvailable" ELSE Last(statuses)
             /\ ears.commands = IF input.pauses THEN Commands(statuses) ELSE <<>>
=============================================================================
