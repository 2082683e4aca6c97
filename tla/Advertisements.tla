--------------------------- MODULE Advertisements ---------------------------
(***************************************************************************)
(* What headphones advertise, from the controller's events to batteries:   *)
(* PassiveHciBasedBleAdvertisingService, which the program has as the      *)
(* alternative to BlueZ's discovery, AppAnimationCapability::ParseBle()    *)
(* and AapPrivateKeysWatcher. Decryption is right or gives rubbish: it is  *)
(* the caller who says which payload comes of it.                          *)
(***************************************************************************)
EXTENDS CapabilityKinds

Bit(b, k) == (b \div 2^k) % 2 = 1
Low(b) == b % 16
High(b) == b \div 16

(***************************************************************************)
(* Events of the controller.                                               *)
(***************************************************************************)
\* Fields of manufacturer data: positions and lengths are bytes and wrap. Of a company's
\* fields the last one counts.
ParseManufacturerData(data) ==
    LET RECURSIVE From(_, _)
        From(pos, result) ==
            IF pos >= Len(data) THEN result
            ELSE LET length == At(data, pos) IN
                 IF length = 0 \/ pos + 1 >= Len(data) THEN result
                 ELSE LET start == (pos + 2) % 256
                          rest == (length + 255) % 256
                          company == At(data, start) + 256 * At(data, start + 1)
                          bytes == SubSeq(data, start + 3, start + rest)
                      IN  From((start + rest) % 256,
                               IF At(data, pos + 1) = 255 /\ rest >= 2
                               THEN (company :> bytes) @@ result ELSE result)
    IN  From(0, <<>>)

\* A report has its length, its address and its strength at fixed places of a header; the
\* strength of one in the older form comes after the data.
Header == [plain |-> 9, extended |-> 24]
LengthAt == [plain |-> 8, extended |-> 23]
AddressAt == [plain |-> 2, extended |-> 3]
Trailer == [plain |-> 1, extended |-> 0]
Rssi(form, report, length) == At(report, IF form = "plain" THEN 9 + length ELSE 13)

ParseReports(form, data) ==
    LET Next(state, i) ==
            LET report == SubSeq(data, state.at + 1, Len(data))
                length == At(report, LengthAt[form])
                end == Header[form] + length
                found == ParseManufacturerData(SubSeq(report, Header[form] + 1, end))
                ad == [address |-> SubSeq(report, AddressAt[form] + 1, AddressAt[form] + 6),
                       rssi |-> Rssi(form, report, length), data |-> found]
            IN  [at |-> state.at + end + Trailer[form],
                 ads |-> IF found = <<>> THEN state.ads ELSE Append(state.ads, ad)]
    IN  FoldLeft(Next, [at |-> 1, ads |-> <<>>], [i \in 1..Head(data) |-> i]).ads

ParseAdvertisingReport(data) == ParseReports("plain", data)
ParseExtendedAdvertisingReport(data) == ParseReports("extended", data)

EVT_LE_META_EVENT == 62
EVT_LE_ADVERTISING_REPORT == 2
EVT_LE_EXT_ADVERTISING_REPORT == 13

ProcessEvent(buf) ==
    LET data == SubSeq(buf, 5, Len(buf)) IN
    CASE Len(buf) < 3 \/ At(buf, 1) # EVT_LE_META_EVENT -> <<>>
      [] At(buf, 3) = EVT_LE_ADVERTISING_REPORT -> ParseAdvertisingReport(data)
      [] At(buf, 3) = EVT_LE_EXT_ADVERTISING_REPORT -> ParseExtendedAdvertisingReport(data)
      [] OTHER -> <<>>

(***************************************************************************)
(* Apple's advertisements.                                                 *)
(***************************************************************************)
AapModelIds ==
    [airpods1 |-> 8194, airpods2 |-> 8207, airpods3 |-> 8211, airpods4 |-> 8217,
     airpods4anc |-> 8219, airpods5wcc |-> 8240, airpods5 |-> 8246, airpodspro |-> 8206,
     airpodspro2 |-> 8212, airpodspro3 |-> 8231, airpodsprousbc |-> 8228,
     powerbeatspro |-> 8203, airpodsmax |-> 8202, airpodsmax2024 |-> 8223,
     beatsSolo3 |-> 8198, beatssolopro |-> 8204, beatsstudio3 |-> 8201, beatsx |-> 8197,
     beatsflex |-> 8208, powerbeats3 |-> 8195, beatsfitpro |-> 8210,
     beatsstudiobuds |-> 8209, beatsstudiobudsplus |-> 8214, powerbeats4 |-> 8205,
     beatsstudiopro |-> 8215, powerbeatspro2 |-> 8221, beatssolobuds |-> 8230,
     beatssolo4 |-> 8229, powerbeatsfit |-> 8239, airpodsmax2 |-> 8237, beats360 |-> 8248]

IsAnimationSupport(model) ==
    \E name \in DOMAIN AapModelIds \
                   {"beatsSolo3", "beatssolopro", "beatsstudio3", "beatsx", "beatsflex",
                    "powerbeats3", "powerbeats4", "beatsstudiopro", "beatssolobuds",
                    "beatssolo4", "beats360"} : AapModelIds[name] = model
IsMax(model) == model \in {AapModelIds.airpodsmax, AapModelIds.airpodsmax2024}

Battery(type, gone, level, charging) ==
    DeviceBatteryData(DeviceBatteryType[type],
                      IF gone THEN DeviceBatteryStatus.Disconnected
                      ELSE DeviceBatteryStatus.Connected, level, charging)

ClampBattery(value) == IF value > 10 THEN 0 ELSE 10 * value
ClampNativeBattery(value) == IF value > 100 THEN 0 ELSE value

PublicBattery(type, nibble, charging) ==
    Battery(type, nibble > 10, ClampBattery(nibble), charging)
PrivateBattery(type, byte) ==
    Battery(type, byte = 255, ClampNativeBattery(byte % 128), byte # 255 /\ Bit(byte, 7))

\* First is the headphone that advertises, and whose side isLeft says. Of two, neither is 0.
Arrange(isLeft, first, second, case, HasBattery(_), Make(_, _)) ==
    IF HasBattery(first) /\ HasBattery(second)
    THEN <<Make("Left", IF isLeft THEN first ELSE second),
           Make("Right", IF isLeft THEN second ELSE first)>>
             \o (IF HasBattery(case) THEN <<Make("Case", case)>> ELSE <<>>)
    ELSE IF HasBattery(first) THEN <<Make("Single", first)>>
    ELSE IF HasBattery(second) THEN <<Make("Single", second)>> ELSE <<>>

\* Fault: the side that advertises is taken for the left one.
PrivateBatteriesUnswapped(isLeft, payload) ==
    LET HasBattery(byte) == byte # 0
        Make(type, byte) == PrivateBattery(type, byte)
    IN  Arrange(TRUE, At(payload, 1), At(payload, 2), At(payload, 3), HasBattery, Make)

PrivateBatteries(isLeft, payload) ==
    LET HasBattery(byte) == byte # 0
        Make(type, byte) == PrivateBattery(type, byte)
    IN  Arrange(isLeft, At(payload, 1), At(payload, 2), At(payload, 3), HasBattery, Make)

PublicBatteries(isLeft, levels, case) ==
    LET HasBattery(b) == b.nibble # 0
        Make(type, b) == PublicBattery(type, b.nibble, b.charging)
        Of(nibble, bit) == [nibble |-> nibble, charging |-> Bit(case, bit)]
    IN  Arrange(isLeft, Of(Low(levels), 4), Of(High(levels), 5), Of(Low(case), 6),
                HasBattery, Make)

\* payload is what the encrypted half decrypts to, empty without a key.
ParseBle(buffer, model, payload) ==
    LET utp == At(buffer, 5)
        cap == At(buffer, 8)
        isLeft == Bit(utp, 5)
        private == Len(payload) >= 4 /\ At(payload, 0) \in {4, 20}
    IN  IF /\ Len(buffer) = 27 /\ At(buffer, 0) = 7 /\ At(buffer, 1) = 25
           /\ At(buffer, 3) + 256 * At(buffer, 4) = model /\ IsAnimationSupport(model)
        THEN [model |-> model, color |-> At(buffer, 9),
              animation |-> IF IsMax(model) THEN High(cap) = 8
                            ELSE Bit(utp, 2) /\ Bit(utp, 0) /\ Low(cap) <= 8,
              batteries |-> IF private THEN PrivateBatteries(isLeft, payload)
                            ELSE PublicBatteries(isLeft, At(buffer, 6), At(buffer, 7))]
        ELSE None

(***************************************************************************)
(* The keys that resolve addresses and decrypt.                            *)
(***************************************************************************)
AapPrivateKeysType == [Irk |-> 1, Enc |-> 4]

\* Both keys, or nothing.
AapPrivateKeysWatcher(data) ==
    LET RECURSIVE From(_, _, _)
        From(start, count, keys) ==
            LET end == start + 4 + At(data, start + 2) IN
            IF \/ count = 0 \/ start + 3 >= Len(data)
               \/ ~Names(AapPrivateKeysType, At(data, start)) \/ end > Len(data)
            THEN keys
            ELSE From(end, count - 1, [keys EXCEPT ![At(data, start)] = SubSeq(data, start + 5, end)])
        read == From(7, At(data, 6), [type \in {1, 4} |-> <<>>])
    IN  Read(/\ Len(data) >= 7 /\ At(data, 4) = 49
             /\ \A type \in {1, 4} : read[type] # <<>>, [irk |-> read[1], enc |-> read[4]])

(***************************************************************************)
(* What is advertised, as headphones and controllers put it together.      *)
(***************************************************************************)
Absent == [is |-> "absent", level |-> 0, charging |-> FALSE]
Gone == [is |-> "gone", level |-> 0, charging |-> FALSE]
Units == {Absent, Gone} \cup [is : {"here"}, level : {10, 100}, charging : BOOLEAN]

Headphones ==
    [kind : {"headphones"}, model : {AapModelIds.airpodspro, AapModelIds.airpodsmax},
     left : Units, right : Units, case : Units, speaker : {"left", "right"}, open : BOOLEAN]

Flag(condition, value) == IF condition THEN value ELSE 0
Nibble(unit) == CASE unit.is = "absent" -> 0 [] unit.is = "gone" -> 15 [] OTHER -> unit.level \div 10
Byte(unit) == CASE unit.is = "absent" -> 0 [] unit.is = "gone" -> 255
                [] OTHER -> unit.level + Flag(unit.charging, 128)
Speaker(h) == h[h.speaker]
Listener(h) == IF h.speaker = "left" THEN h.right ELSE h.left

Advertised(h) ==
    <<7, 25, 1, h.model % 256, h.model \div 256, Flag(h.speaker = "left", 32) + 5,
      Nibble(Speaker(h)) + 16 * Nibble(Listener(h)),
      Nibble(h.case) + Flag(Speaker(h).charging, 16) + Flag(Listener(h).charging, 32)
          + Flag(h.case.charging, 64),
      IF IsMax(h.model) THEN Flag(h.open, 128) ELSE Flag(~h.open, 9), 3, 0>>
        \o [i \in 1..16 |-> 0]
Encrypted(h) == <<4, Byte(Speaker(h)), Byte(Listener(h)), Byte(h.case)>>

BatteryOf(type, unit) == Battery(type, unit.is = "gone", unit.level, unit.charging)
BatteriesOf(h) ==
    LET Here(unit) == unit.is # "absent"
        Listed(type, unit) == IF Here(unit) THEN <<BatteryOf(type, unit)>> ELSE <<>>
    IN  IF Here(h.left) /\ Here(h.right)
        THEN <<BatteryOf("Left", h.left), BatteryOf("Right", h.right)>> \o Listed("Case", h.case)
        ELSE Listed("Single", h.left) \o Listed("Single", h.right)

Keys == [type : {1, 2, 4}, key : {<<>>, <<7>>, <<8, 9>>}]
KeyLists == [kind : {"keys"}, keys : SeqOf(Keys, 3), cut : 0..2]
KeyBytes(k) == <<k.type, 0, Len(k.key), 0>> \o k.key
KeyPacket(list) ==
    LET bytes == <<4, 0, 4, 0, 49, 0, Len(list.keys)>>
                     \o FlattenSeq([i \in DOMAIN list.keys |-> KeyBytes(list.keys[i])])
    IN  SubSeq(bytes, 1, Len(bytes) - list.cut)
\* Keys that have arrived in whole, before one that has not or is of an unknown type.
Whole(list) ==
    LET End(i) == 7 + Len(FlattenSeq([j \in 1..i |-> KeyBytes(list.keys[j])]))
        Ok(i) == list.keys[i].type # 2 /\ End(i) <= Len(KeyPacket(list))
    IN  {i \in DOMAIN list.keys : \A j \in 1..i : Ok(j)}
LastOf(list, type) ==
    LET of == {i \in Whole(list) : list.keys[i].type = type}
    IN  IF of = {} THEN <<>> ELSE list.keys[CHOOSE i \in of : \A j \in of : j <= i].key

\* A company's data may be empty; a field of manufacturer data may be too short to have one.
Fields == {<<1, 6>>, <<255, 5>>} \cup {<<255, c, 1>> \o b : c \in {76, 77}, b \in {<<>>, <<1, 2>>}}
Reports == [kind : {"reports"}, form : {"plain", "extended"}, reports : SeqOf(SeqOf(Fields, 2), 2)]
ReportData(fields) == FlattenSeq([i \in DOMAIN fields |-> <<Len(fields[i])>> \o fields[i]])
Address(i) == <<i, 2, 3, 4, 5, 6>>
ReportBytes(form, i, fields) ==
    LET data == ReportData(fields) IN
    IF form = "plain" THEN <<0, 1>> \o Address(i) \o <<Len(data)>> \o data \o <<200 + i>>
    ELSE <<0, 0, 1>> \o Address(i) \o <<1, 2, 3, 127, 200 + i, 0, 0, 0, 0, 0, 0, 0, 0, 0, Len(data)>>
             \o data
Event(input) ==
    <<4, EVT_LE_META_EVENT, 0,
      IF input.form = "plain" THEN EVT_LE_ADVERTISING_REPORT ELSE EVT_LE_EXT_ADVERTISING_REPORT,
      Len(input.reports)>>
        \o FlattenSeq([i \in DOMAIN input.reports |-> ReportBytes(input.form, i, input.reports[i])])
DataOf(fields) ==
    LET Of(f) == (f[2] + 256 * f[3]) :> SubSeq(f, 4, Len(f))
        Add(result, f) == IF f[1] = 255 /\ Len(f) >= 3 THEN Of(f) @@ result ELSE result
    IN  FoldLeft(Add, <<>>, fields)
AdsOf(input) ==
    LET ad(i) == [address |-> Address(i), rssi |-> 200 + i, data |-> DataOf(input.reports[i])]
    IN  SelectSeq([i \in DOMAIN input.reports |-> ad(i)], LAMBDA a : a.data # <<>>)

Inputs == Headphones \cup KeyLists \cup Reports

\* What is advertised is read as it is: the batteries are the same whichever of the two
\* headphones speaks, and whether they are read in tenths or decrypted, and the case is open
\* if it is; an event of one or more reports of either form becomes the data of every company
\* in them, each with the address and strength of its own report; and keys that arrive in
\* any order, more than once, cut off or behind something unknown are taken both or not at
\* all, and never in part.
AdvertisementsTrue(input) ==
    CASE input.kind = "headphones" ->
             LET public == ParseBle(Advertised(input), input.model, <<>>)
                 private == ParseBle(Advertised(input), input.model, Encrypted(input)) IN
             /\ public = private /\ public.batteries = BatteriesOf(input)
             /\ public.animation = input.open
      [] input.kind = "keys" ->
             LET irk == LastOf(input, 1)
                 enc == LastOf(input, 4) IN
             AapPrivateKeysWatcher(KeyPacket(input)) =
                 Read(irk # <<>> /\ enc # <<>>, [irk |-> irk, enc |-> enc])
      [] OTHER -> ProcessEvent(Event(input)) = AdsOf(input)
=============================================================================
