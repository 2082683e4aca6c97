------------------------------ MODULE Requests ------------------------------
(***************************************************************************)
(* What a client's request asks of the program, and what it is answered    *)
(* (src/src/main.cpp, src/src/DevicesInfoFetcher.cpp), with the access to  *)
(* JSON it is read by. What threads do meanwhile is Server's subject, how  *)
(* texts are read and settings converted Json's.                           *)
(*                                                                         *)
(* A JSON value is its type and its content; a string is the sequence of   *)
(* the words or characters that matter, an object a function of its keys.  *)
(***************************************************************************)
EXTENDS Packets

(***************************************************************************)
(* Access to JSON                                                          *)
(***************************************************************************)
Null == <<"null", <<>>>>
Object == <<"object", <<>>>>
Array == <<"array", <<>>>>
String(s) == <<"string", s>>
Boolean(b) == <<"boolean", b>>
Throws == <<"throws", <<>>>>           \* an exception instead of a value

is_null(json) == json[1] = "null"
is_object(json) == json[1] = "object"
is_array(json) == json[1] = "array"
is_string(json) == json[1] = "string"

contains(json, key) == is_object(json) /\ key \in DOMAIN json[2]
at(json, key) == IF contains(json, key) THEN json[2][key] ELSE Throws
get_string(json) == IF is_string(json) THEN json ELSE Throws

\* json[key] = value: a null becomes an object.
Put(json, key, value) ==
    IF is_object(json) \/ is_null(json)
    THEN <<"object", (key :> value) @@ json[2]>> ELSE Throws
push_back(json, value) ==
    IF is_array(json) \/ is_null(json) THEN <<"array", Append(json[2], value)>> ELSE Throws
update(json, other) ==
    IF is_object(other) /\ (is_object(json) \/ is_null(json))
    THEN <<"object", other[2] @@ json[2]>> ELSE Throws
erase(json, key) == <<"object", [k \in DOMAIN json[2] \ {key} |-> json[2][k]]>>
IsEmpty(json) == is_null(json) \/ ((is_object(json) \/ is_array(json)) /\ DOMAIN json[2] = {})

(***************************************************************************)
(* Bytes as text                                                           *)
(***************************************************************************)
hexmap == <<"0", "1", "2", "3", "4", "5", "6", "7", "8", "9", "a", "b", "c", "d", "e", "f">>
Capitals == ("A" :> "a") @@ ("B" :> "b") @@ ("C" :> "c") @@ ("D" :> "d") @@ ("E" :> "e") @@ ("F" :> "f")
ToLowerCase(s) == [i \in DOMAIN s |-> IF s[i] \in DOMAIN Capitals THEN Capitals[s[i]] ELSE s[i]]
isxdigit(c) == c \in ToSet(hexmap) \cup DOMAIN Capitals

\* What strtol makes of the digits at the head of s.
RECURSIVE strtol(_, _)
strtol(s, value) ==
    IF s = <<>> \/ ~isxdigit(Head(s)) THEN value
    ELSE strtol(Tail(s), 16 * value + IndexFirstSubSeq(ToLowerCase(<<Head(s)>>), hexmap) - 1)
HexStringToBytes(hex) ==
    [i \in 1..((Len(hex) + 1) \div 2) |->
        strtol(SubSeq(hex, 2 * i - 1, IF 2 * i > Len(hex) THEN Len(hex) ELSE 2 * i), 0)]
BytesToHexString(data) ==
    FlattenSeq([i \in DOMAIN data |-> <<hexmap[data[i] \div 16 + 1], hexmap[(data[i] % 16) + 1]>>])

\* Fault: half a byte at the end is sent as a whole one.
IsValidHexOfAnyLength(value) == value # <<>> /\ \A i \in DOMAIN value : isxdigit(value[i])
IsValidHex(value) ==
    value # <<>> /\ Len(value) % 2 = 0 /\ \A i \in DOMAIN value : isxdigit(value[i])

(***************************************************************************)
(* The program: its devices, the active one, its adapter, its settings.    *)
(* "calls" is what it has asked of BlueZ and sent to headphones, "replies" *)
(* what it has sent to the client, whose last request is under way.        *)
(***************************************************************************)
\* DeviceBattery::CreateJsonBody(): each battery by the name of its part.
PartName == (1 :> "single") @@ (2 :> "right") @@ (4 :> "left") @@ (8 :> "case")
BatteryJson(battery) ==
    Put(Put(Put(Object, "battery", <<"integer", battery.level>>),
            "charging", Boolean(battery.charging)), "status", <<"unsigned", battery.status>>)
BatteryBody(batteries) ==
    LET Next(json, battery) == Put(json, PartName[battery.type], BatteryJson(battery))
    IN  FoldLeft(Next, Object, batteries)

\* A capability that is not available is not shown.
CapabilityAsJson(capability) ==
    IF capability.isAvailable
    THEN Put(Null, capability.name, Put(capability.body, "readonly", Boolean(capability.isReadOnly)))
    ELSE Null
DeviceAsJson(device) ==
    LET Shown(i) == CapabilityAsJson(device.capabilities[i])
        Next(json, i) == IF IsEmpty(Shown(i)) THEN json ELSE update(json, Shown(i))
        named == Put(Put(Object, "address", String(device.address)),
                     "connected", Boolean(device.connected))
    IN  Put(Put(named, "color", IF device.color = None THEN <<"integer", 0>>
                                ELSE <<"integer", device.color>>),
            "capabilities", FoldLeftDomain(Next, Object, device.capabilities))

DevicesResponse(program) ==
    LET Next(json, device) == push_back(json, erase(DeviceAsJson(device), "capabilities"))
    IN  Put(Object, "headphones", FoldLeft(Next, Array, program.devices))
ActiveDeviceInfoResponse(program) ==
    Put(Object, "info", IF program.active = 0 THEN Object
                        ELSE DeviceAsJson(program.devices[program.active]))
DefaultBluetoothAdapterResponse(program) ==
    Put(Object, "defaultbluetooth", Put(Object, "enabled", Boolean(program.powered)))
SettingResponse(program, container, setting) ==
    LET value == at(at(program.settings, container), setting)
    IN  Put(Object, "settings", Put(Object, container,
            Put(Object, setting, IF value = Throws THEN Null ELSE value)))

Answers(program, json) == [program EXCEPT !.replies = Append(@, json)]
Calls(program, call) == [program EXCEPT !.calls = Append(@, call)]

GetDevice(program, address) ==
    SelectInSeq(program.devices, LAMBDA d : String(d.address) = address)

\* The answer to a call of BlueZ follows when BlueZ answers.
HandleConnectDevice(program, json, connects) ==
    LET address == get_string(at(at(json, "arguments"), "address"))
        device == GetDevice(program, address)
    IN  CASE address = Throws -> None
          [] address # Throws /\ (device = 0 \/ program.devices[device].connected = connects) ->
                 Answers(program, DevicesResponse(program))
          [] OTHER -> Calls(program, <<IF connects THEN "Connect" ELSE "Disconnect", device>>)

\* CmnSendHexCapability; SetFromJson() of the others is modelled with them.
SendHexFromJson(program, device, json) ==
    LET selected == at(at(json, "sendHex"), "selected")
    IN  IF is_string(selected) /\ IsValidHex(selected[2])
        THEN Calls(program, <<"Send", device, HexStringToBytes(selected[2])>>) ELSE program
SetFromJson(program, device, capability, json) ==
    IF capability.name = "sendHex" THEN SendHexFromJson(program, device, json) ELSE program
HandleSetCapabilities(program, json) ==
    LET arguments == at(json, "arguments")
        address == at(arguments, "address")
        capabilities == at(arguments, "capabilities")
        device == GetDevice(program, address)
        Next(p, capability) == SetFromJson(p, device, capability, capabilities)
    IN  CASE ~contains(arguments, "address") \/ ~contains(arguments, "capabilities") -> program
          [] contains(arguments, "address") /\ contains(arguments, "capabilities")
                /\ get_string(address) = Throws -> None
          [] OTHER -> IF device = 0 THEN program
                      ELSE FoldLeft(Next, program, program.devices[device].capabilities)

\* A container that is asked for is there from then on.
HandleGetSettings(program, json) ==
    LET container == get_string(at(at(json, "arguments"), "container"))
        key == container[2]
        known == is_object(at(program.settings, key))
        there == [program EXCEPT !.settings = IF known THEN @ ELSE Put(@, key, Object)]
    IN  IF container = Throws THEN None
        ELSE Answers(there, Put(Object, "settings", Put(Object, key, at(there.settings, key))))
HandleGetSetting(program, json) ==
    LET container == get_string(at(at(json, "arguments"), "container"))
        setting == get_string(at(at(json, "arguments"), "setting"))
    IN  IF Throws \in {container, setting} THEN None
        ELSE Answers(program, SettingResponse(program, container[2], setting[2]))
HandleSaveSetting(program, json) ==
    LET container == get_string(at(at(json, "arguments"), "container"))
        setting == get_string(at(at(json, "arguments"), "setting"))
        value == at(at(json, "arguments"), "value")
        key == container[2]
        old == IF is_object(at(program.settings, key)) THEN at(program.settings, key) ELSE Object
        new == Put(program.settings, key, Put(old, setting[2], value))
    IN  CASE Throws \in {container, setting, value} -> None
          [] Throws \notin {container, setting, value} /\ is_null(value) -> program
          [] OTHER -> [program EXCEPT !.settings = new]

HandleGetAll(program) ==
    LET devices == at(DevicesResponse(program), "headphones")
        adapter == at(DefaultBluetoothAdapterResponse(program), "defaultbluetooth")
        info == at(ActiveDeviceInfoResponse(program), "info")
    IN  Answers(program, Put(Put(Put(Object, "headphones", devices), "defaultbluetooth", adapter),
                             "info", info))

IncorrectResponse == String(<<>>)

\* What becomes of the program; None if a handler throws, which it does before it does anything.
Handle(program, json, method) ==
    CASE method = "GetDevices" -> Answers(program, DevicesResponse(program))
      [] method = "ConnectDevice" -> HandleConnectDevice(program, json, TRUE)
      [] method = "DisconnectDevice" -> HandleConnectDevice(program, json, FALSE)
      [] method = "SetCapabilities" -> HandleSetCapabilities(program, json)
      [] method = "GetDefaultBluetoothAdapter" ->
             Answers(program, DefaultBluetoothAdapterResponse(program))
      [] method = "EnableDefaultBluetoothAdapter" -> Calls(program, <<"Power", TRUE>>)
      [] method = "DisableDefaultBluetoothAdapter" -> Calls(program, <<"Power", FALSE>>)
      [] method = "GetActiveDeviceInfo" -> Answers(program, ActiveDeviceInfoResponse(program))
      [] method = "GetAll" -> HandleGetAll(program)
      [] method = "GetSettingsAll" -> Answers(program, Put(Object, "settings", program.settings))
      [] method = "GetSettings" -> HandleGetSettings(program, json)
      [] method = "GetSetting" -> HandleGetSetting(program, json)
      [] method = "SetSetting" -> HandleSaveSetting(program, json)
      [] OTHER -> Answers(program, IncorrectResponse)

OrIncorrect(program, done) == IF done = None THEN Answers(program, IncorrectResponse) ELSE done

\* A text that is no JSON makes the parser throw.
HandleRequest(program, json) ==
    LET method == get_string(at(json, "method"))
    IN  OrIncorrect(program,
            IF method = Throws THEN None
            ELSE Handle(program, json, IF Len(method[2]) = 1 THEN method[2][1] ELSE ""))

(***************************************************************************)
(* The programs and requests there are, and what is true of the answers.   *)
(***************************************************************************)
Anc(isAvailable) ==
    [name |-> "anc", isAvailable |-> isAvailable, isReadOnly |-> FALSE,
     body |-> Put(Object, "selected", <<"unsigned", 2>>)]
Levels == (1 :> 0) @@ (2 :> 100) @@ (4 :> 40) @@ (8 :> 7)
Battery ==
    [name |-> "battery", isAvailable |-> TRUE, isReadOnly |-> TRUE,
     body |-> BatteryBody([i \in 1..4 |->
         [type |-> 2^(i - 1), level |-> Levels[2^(i - 1)], charging |-> i = 4, status |-> i - 1]])]
SendHex == [name |-> "sendHex", isAvailable |-> FALSE, isReadOnly |-> FALSE, body |-> Object]
DeviceOf(address, connected, color, capabilities) ==
    [address |-> address, connected |-> connected, color |-> color, capabilities |-> capabilities]
ProgramOf(devices, active, settings) ==
    [devices |-> devices, active |-> active, powered |-> active # 0, settings |-> settings,
     replies |-> <<>>, calls |-> <<>>]
Programs ==
    {ProgramOf(<<>>, 0, Object),
     ProgramOf(<<DeviceOf(<<"x">>, TRUE, 5, <<Anc(TRUE), Battery, SendHex>>),
                 DeviceOf(<<"y">>, FALSE, None, <<SendHex, Anc(FALSE)>>)>>, 1,
               Put(Put(Object, <<"p">>, Put(Object, <<"s">>, Boolean(TRUE))), <<"q">>, Boolean(TRUE)))}

\* What a method cannot do without, and what it is answered with.
Needs ==
    [m \in {"GetDevices", "ConnectDevice", "DisconnectDevice", "SetCapabilities", "GetAll",
            "GetDefaultBluetoothAdapter", "EnableDefaultBluetoothAdapter", "GetSettings",
            "DisableDefaultBluetoothAdapter", "GetActiveDeviceInfo", "GetSettingsAll",
            "GetSetting", "SetSetting"} |->
        CASE m \in {"ConnectDevice", "DisconnectDevice"} -> {"address"}
          [] m = "GetSettings" -> {"container"}
          [] m = "GetSetting" -> {"container", "setting"}
          [] m = "SetSetting" -> {"container", "setting", "value"}
          [] OTHER -> {}]
Content ==
    [m \in DOMAIN Needs |->
        CASE m \in {"GetDevices", "ConnectDevice", "DisconnectDevice"} -> {"headphones"}
          [] m = "GetDefaultBluetoothAdapter" -> {"defaultbluetooth"}
          [] m = "GetActiveDeviceInfo" -> {"info"}
          [] m = "GetAll" -> {"headphones", "defaultbluetooth", "info"}
          [] m \in {"GetSettingsAll", "GetSettings", "GetSetting"} -> {"settings"}
          [] OTHER -> {}]

Methods == {<<"string", <<m>>>> : m \in DOMAIN Needs \cup {"Reboot"}} \cup {Null}
Texts == {<<>>, <<"0">>, <<"f", "F">>, <<"0", "4", "0">>, <<"A", "g">>, <<"0", "4", "b", "E">>}
Hexes ==
    {Put(Object, "sendHex", Put(Object, "selected", String(text))) : text \in Texts}
        \cup {Null, Put(Object, "sendHex", Null), Put(Object, "anc", Object)}
\* An object without the keys that have no value here.
ObjectOf(fields) == <<"object", [k \in {k \in DOMAIN fields : fields[k] # None} |-> fields[k]]>>
Words(s) == {<<"string", <<w>>>> : w \in s} \cup {Null, None}
Arguments ==
    {None, Null}
        \cup {ObjectOf(f) : f \in [address : Words({"x", "y", "z"}), capabilities : Hexes \cup {None}]}
        \cup {ObjectOf(f) : f \in [container : Words({"p", "q", "r"}), setting : Words({"s", "t"}),
                                   value : {None, Null, Boolean(FALSE)}]}
Inputs ==
    [kind : {"request"}, program : Programs, method : Methods, arguments : Arguments]
        \cup [kind : {"noise"}, program : Programs, json : {Throws, Null, Array, Object}]
        \cup [kind : {"bytes"}, data : [1..1 -> 0..255] \cup [1..3 -> {0, 9, 10, 171, 255}]]

\* What a request may lack: nothing that its method needs, and an address must be one.
Complete(method, arguments) ==
    /\ \A k \in Needs[method] : contains(arguments, k) /\ (k # "value" => is_string(at(arguments, k)))
    /\ ~(/\ method = "SetCapabilities" /\ contains(arguments, "capabilities")
         /\ contains(arguments, "address") /\ ~is_string(at(arguments, "address")))

\* The devices of an answer, and the one whose capabilities are shown.
ShowsDevice(device, shown) ==
    /\ at(shown, "address") = String(device.address)
    /\ at(shown, "connected") = Boolean(device.connected)
    /\ at(shown, "color")[2] = IF device.color = None THEN 0 ELSE device.color
ShowsKey(program, key, shown) ==
    CASE key = "headphones" ->
             /\ Len(shown[2]) = Len(program.devices)
             /\ \A i \in DOMAIN program.devices :
                    /\ ShowsDevice(program.devices[i], shown[2][i])
                    /\ ~contains(shown[2][i], "capabilities")
      [] key = "info" /\ program.active = 0 -> shown = Object
      [] key = "info" /\ program.active # 0 ->
             LET device == program.devices[program.active] IN
             /\ ShowsDevice(device, shown)
             /\ DOMAIN at(shown, "capabilities")[2] =
                    {c.name : c \in {c \in ToSet(device.capabilities) : c.isAvailable}}
             /\ \A c \in ToSet(device.capabilities) : c.isAvailable =>
                    at(at(at(shown, "capabilities"), c.name), "readonly") = Boolean(c.isReadOnly)
             /\ Battery \in ToSet(device.capabilities) =>
                    \A type \in DOMAIN Levels :
                        at(at(at(at(shown, "capabilities"), "battery"), PartName[type]), "battery")
                            = <<"integer", Levels[type]>>
      [] key = "defaultbluetooth" -> at(shown, "enabled") = Boolean(program.powered)
      [] OTHER ->
             \A c \in DOMAIN shown[2] :
                 \/ shown[2][c] = at(program.settings, c)
                 \/ \A s \in DOMAIN shown[2][c][2] :
                        shown[2][c][2][s] = IF contains(at(program.settings, c), s)
                                            THEN at(at(program.settings, c), s) ELSE Null

\* What is asked of a device is asked of the one with the address of the request.
CallTrue(program, method, arguments, call) ==
    CASE call[1] = "Power" -> call[2] = (method = "EnableDefaultBluetoothAdapter")
      [] call[1] # "Power" ->
             LET device == program.devices[call[2]] IN
             /\ at(arguments, "address") = String(device.address)
             /\ call[1] = "Connect" => ~device.connected
             /\ call[1] = "Disconnect" => device.connected
             /\ call[1] = "Send" => BytesToHexString(call[3]) =
                    ToLowerCase(at(at(at(arguments, "capabilities"), "sendHex"), "selected")[2])

Asks(input, method) == [input EXCEPT !.method = <<"string", <<method>>>>]
JsonOf(input) == ObjectOf([method |-> input.method, arguments |-> input.arguments])
Saves(program, input, after) ==
    LET value == at(input.arguments, "value")
        read == HandleRequest(after, JsonOf(Asks(input, "GetSetting")))
        container == at(input.arguments, "container")[2] IN
    /\ IF is_null(value) THEN after = program
       ELSE at(at(at(Last(read.replies), "settings"), container), at(input.arguments, "setting")[2])
                = value
    /\ \A c \in DOMAIN program.settings[2] \ {container} : after.settings[2][c] = program.settings[2][c]

AnswerTrue(input, arguments, after) ==
    LET program == input.program
        method == IF is_null(input.method) THEN "none" ELSE input.method[2][1]
    IN  IF method \notin DOMAIN Needs
        THEN after = Answers(program, IncorrectResponse)
        ELSE IF ~Complete(method, arguments) THEN after = Answers(program, IncorrectResponse)
        ELSE /\ Len(after.replies) + Len(after.calls) <= 1
             /\ Content[method] # {} => Len(after.replies) + Len(after.calls) = 1
             /\ \A reply \in ToSet(after.replies) :
                    /\ DOMAIN reply[2] = Content[method]
                    /\ \A key \in Content[method] : ShowsKey(after, key, reply[2][key])
             /\ \A call \in ToSet(after.calls) : CallTrue(program, method, arguments, call)
             /\ method \in {"ConnectDevice", "DisconnectDevice"} /\ after.replies # <<>> =>
                    \A d \in ToSet(program.devices) :
                        at(arguments, "address") = String(d.address) =>
                            d.connected = (method = "ConnectDevice")
             /\ method # "SetSetting" => DOMAIN program.settings[2] \subseteq DOMAIN after.settings[2]
             /\ method = "SetSetting" => Saves(program, input, after)
RequestTrue(input) ==
    AnswerTrue(input, IF input.arguments = None THEN Throws ELSE input.arguments,
               HandleRequest(input.program, JsonOf(input)))

\* A request is answered once: refused, and nothing done, if it is no JSON, no method the program
\* has or lacks what the method needs; answered with what the program has then; or passed on to
\* the device with its address, if that can do what is asked. Bytes reach headphones as they were
\* spelled, in letters of either case, or not at all. A setting that is saved is what is read,
\* and no other one is changed.
RequestsTrue(input) ==
    CASE input.kind = "request" -> RequestTrue(input)
      [] input.kind = "noise" ->
             HandleRequest(input.program, input.json) = Answers(input.program, IncorrectResponse)
      [] OTHER -> HexStringToBytes(BytesToHexString(input.data)) = input.data
=============================================================================
